---- MODULE Spec2Model ----
(***************************************************************************)
(* FinCrime counterparty-risk screening scripts (zombique/Hackathon-2025). *)
(*                                                                         *)
(* Three entry points of the repository are modelled, one per value of     *)
(* prog:                                                                   *)
(*   "pipeline"      the Kubeflow pipeline of src/Sunil/fincrime_pipeline  *)
(*                   .py: extract_transactions -> build_prompts ->         *)
(*                   llm_score -> persist_outputs, generate_dashboard      *)
(*   "run_pipeline"  run_pipeline of src/Sunil/trigger_pipeline/           *)
(*                   vertex_ai_fincrime_pipeline_final.py: column check,   *)
(*                   enrich_companies (OpenCorporatesClient.lookup with    *)
(*                   its tenacity retry), assess_with_gemini per row, CSV  *)
(*   "normalize"     normalize_company_name of the same file, applied      *)
(*                   repeatedly to a name                                  *)
(* A behaviour runs one of them; the variables of the others stay parked.  *)
(***************************************************************************)
EXTENDS Naturals, Integers, Sequences, FiniteSets, TLC

VARIABLES
    prog,          \* the entry point this behaviour runs
    \* ---- fincrime_pipeline.py (Kubeflow pipeline)
    source,        \* the table at gcs_input_uri: [cols, ids]
    task,          \* status of each pipeline task
    raw,           \* output artifact of extract_transactions
    prompts,       \* output artifact of build_prompts
    responses,     \* llm_score: what generate_content did for each row so far
    results,       \* llm_score: the in-memory list of verdicts
    scored,        \* output artifact of llm_score
    exported,      \* files under gcs_export_uri: file name -> content
    error,         \* the exception that failed a task
    \* ---- vertex_ai_fincrime_pipeline_final.py: run_pipeline
    input_csv,     \* the table read by run_pipeline: [cols, rows]
    preview_only,  \* run_pipeline's preview_only argument
    pc,            \* position of run_pipeline
    comps,         \* enrich_companies: the names still to iterate over
    profiles,      \* enrich_companies: name -> CompanyProfile
    lookup_calls,  \* name -> number of calls of OpenCorporatesClient.lookup
    df,            \* run_pipeline's data frame after enrichment: its rows
    assessments,   \* run_pipeline: the list of verdicts
    output_csv,    \* the file run_pipeline writes
    run_error,     \* the exception that escaped run_pipeline
    \* ---- vertex_ai_fincrime_pipeline_final.py: OpenCorporatesClient
    api_token,     \* OpenCorporatesClient.api_token is set
    lookup_name,   \* the argument of OpenCorporatesClient.lookup
    lpc,           \* position of lookup
    attempt,       \* tenacity's attempt number in search_company
    requests_made, \* HTTP requests sent by search_company
    sent,          \* the "q" parameter of each request sent, in order
    backoff,       \* the waits (seconds) slept between the attempts
    failures,      \* the failures of the attempts, in order
    returned,      \* what lookup returned
    \* ---- normalize_company_name
    applied,       \* <<s, normalize(s), normalize(normalize(s)), ...>>
    \* ---- a single call of fetch_industry or of validate_match
    args,          \* the arguments of the call
    ret,           \* what the call returned
    \* ---- pravin/predict.py
    model,         \* the module global model
    kmeans,        \* the module global kmeans
    loads,         \* the runs of load_model: the globals before it, its outcome
    calls,         \* number of calls of predict so far
    last,          \* the latest call of predict: its instances and its result
    \* ---- ml_pipeline/predict_function/main.py
    invocation,    \* each invocation of predict_transaction: position, response
    staging_table, \* transactions_prediction_staging: the file its rows are from
    prediction_table \* transactions_predictions: the file its rows were predicted from

varsPipeline == <<source, task, raw, prompts, responses, results, scored, exported, error>>
varsRun == <<input_csv, preview_only, pc, comps, profiles, lookup_calls, df,
             assessments, output_csv, run_error>>
varsLookup == <<lookup_name, lpc, attempt, requests_made, sent, backoff, failures, returned>>
varsNormalize == <<applied>>
varsCall == <<args, ret>>
varsPredict == <<model, kmeans, loads, calls, last>>
varsPredictTx == <<invocation, staging_table, prediction_table>>
vars == <<prog, api_token, varsPipeline, varsRun, varsLookup, varsNormalize, varsCall,
          varsPredict, varsPredictTx>>

\* Values for "nothing there": no file written, no exception raised, Python's None.
NoFile == [written |-> FALSE]
File(content) == [written |-> TRUE, content |-> content]
NoError == [type |-> "none"]
None == "None"

(***************************************************************************)
(* Bounds of the model.                                                    *)
(***************************************************************************)
MaxNameLen == 4      \* characters of a name given to normalize_company_name
MaxApplied == 3      \* applications of normalize_company_name to one name
MaxRows == 2         \* rows of the pipeline's input table
MaxMissing == 2      \* required columns absent from an input table
MaxOptional == 1     \* optional columns present in an input table
MaxTx == 2           \* rows of the table given to run_pipeline
MaxCodes == 2        \* entries of a company's industry_codes
MaxInstances == 2    \* instances of one prediction request
MaxCalls == 3        \* calls of predict in one container
MaxBlobs == 2        \* objects in the training bucket
MaxCsvRows == 2      \* rows of a file given to process_transaction_file

(***************************************************************************)
(* normalize_company_name.  A string is a sequence of characters, each a   *)
(* one-character string ("U+00C9" stands for the non-ASCII capital letter  *)
(* E-acute and "U+00E9" for its lower case).                               *)
(***************************************************************************)
UpperLetters == {"A","B","C","D","E","F","G","H","I","J","K","L","M",
                 "N","O","P","Q","R","S","T","U","V","W","X","Y","Z"}
LowerSeq == <<"a","b","c","d","e","f","g","h","i","j","k","l","m",
              "n","o","p","q","r","s","t","u","v","w","x","y","z","U+00E9">>
UpperSeq == <<"A","B","C","D","E","F","G","H","I","J","K","L","M",
              "N","O","P","Q","R","S","T","U","V","W","X","Y","Z","U+00C9">>
Digits == {"0","1","2","3","4","5","6","7","8","9"}
NonAsciiLetters == {"U+00C9", "U+00E9"}
LowerLetters == {LowerSeq[i] : i \in 1..26}

\* str.upper, character by character
UpperChar(c) ==
    IF \E i \in 1..Len(LowerSeq) : LowerSeq[i] = c
    THEN UpperSeq[CHOOSE i \in 1..Len(LowerSeq) : LowerSeq[i] = c]
    ELSE c

Upper(s) == [i \in 1..Len(s) |-> UpperChar(s[i])]

\* \s of a str pattern, and the characters str.strip removes
IsSpace(c) == c \in {" ", "\t", "\n"}

\* \w of a str pattern: Unicode letters, digits and the underscore
IsWordChar(c) == c \in UpperLetters \cup LowerLetters \cup Digits \cup NonAsciiLetters \cup {"_"}

RECURSIVE LStrip(_)
LStrip(s) == IF s # <<>> /\ IsSpace(Head(s)) THEN LStrip(Tail(s)) ELSE s

RECURSIVE RStrip(_)
RStrip(s) == IF s # <<>> /\ IsSpace(s[Len(s)]) THEN RStrip(SubSeq(s, 1, Len(s) - 1)) ELSE s

\* str.strip
Strip(s) == RStrip(LStrip(s))

\* the alternatives of the suffix pattern, in the order the pattern lists them
Suffixes == <<
    <<"L","T","D">>, <<"L","I","M","I","T","E","D">>, <<"P","L","C">>, <<"L","L","C">>,
    <<"I","N","C">>, <<"I","N","C","O","R","P","O","R","A","T","E","D">>,
    <<"G","M","B","H">>, <<"S",".","A",".">>, <<"S","A","S">>, <<"B","V">>, <<"O","Y">>,
    <<"A","B">>, <<"A","G">>, <<"N","V">>, <<"P","T","Y">>, <<"P","T","E">>,
    <<"K","F","T">>, <<"S","R","L">>, <<"S","L">>, <<"S","A">> >>

\* \b between s[p] and s[p+1] (p = 0: the start, p = Len(s): the end)
WordAt(s, i) == i >= 1 /\ i <= Len(s) /\ IsWordChar(s[i])
Boundary(s, p) == WordAt(s, p) # WordAt(s, p + 1)

\* the alternatives that match at position i with \b on both sides
SuffixesAt(s, i) ==
    {k \in 1..Len(Suffixes) :
        /\ i + Len(Suffixes[k]) - 1 <= Len(s)
        /\ SubSeq(s, i, i + Len(Suffixes[k]) - 1) = Suffixes[k]
        /\ Boundary(s, i - 1)
        /\ Boundary(s, i + Len(Suffixes[k]) - 1)}

FirstOf(ks) == CHOOSE k \in ks : \A j \in ks : k <= j

\* re.sub(r"\b(LTD|...|SA)\b", "", n): leftmost matches, the first alternative
\* that matches wins, and the scan goes on after the match
RECURSIVE StripSuffixes(_, _)
StripSuffixes(s, i) ==
    IF i > Len(s) THEN <<>>
    ELSE IF SuffixesAt(s, i) # {}
         THEN StripSuffixes(s, i + Len(Suffixes[FirstOf(SuffixesAt(s, i))]))
         ELSE <<s[i]>> \o StripSuffixes(s, i + 1)

\* [A-Z0-9 &]
IsKept(c) == c \in UpperLetters \cup Digits \cup {" ", "&"}

\* re.sub(r"[^A-Z0-9 &]+", " ", n): each maximal run of other characters
\* becomes one space
RECURSIVE ReplaceOthers(_, _)
ReplaceOthers(s, i) ==
    IF i > Len(s) THEN <<>>
    ELSE IF IsKept(s[i]) THEN <<s[i]>> \o ReplaceOthers(s, i + 1)
    ELSE IF i > 1 /\ ~IsKept(s[i - 1]) THEN ReplaceOthers(s, i + 1)
    ELSE <<" ">> \o ReplaceOthers(s, i + 1)

\* re.sub(r"\s+", " ", n): each maximal run of whitespace becomes one space
RECURSIVE CollapseSpaces(_, _)
CollapseSpaces(s, i) ==
    IF i > Len(s) THEN <<>>
    ELSE IF ~IsSpace(s[i]) THEN <<s[i]>> \o CollapseSpaces(s, i + 1)
    ELSE IF i > 1 /\ IsSpace(s[i - 1]) THEN CollapseSpaces(s, i + 1)
    ELSE <<" ">> \o CollapseSpaces(s, i + 1)

\* a value that is not a str: the NaN pandas holds for an empty cell
NaN == <<"<NaN>">>

\* a cell that holds the integer 123 and not a string
Int123 == <<"<int>", "1", "2", "3">>

\* isinstance(name, str)
IsStr(name) == name # NaN /\ (name = <<>> \/ Head(name) # "<int>")

\* astype(str) on a cell that is not NaN
AsTypeStr(x) == IF IsStr(x) THEN x ELSE Tail(x)

normalize_company_name(name) ==
    IF ~IsStr(name) THEN <<>>
    ELSE LET n0 == Upper(Strip(name))
             n1 == StripSuffixes(n0, 1)
             n2 == ReplaceOthers(n1, 1)
         IN  Strip(CollapseSpaces(n2, 1))

\* ---- the repeated application of normalize_company_name
NameChars == {"S", "a", ".", "_", " ", "U+00C9"}

RECURSIVE StringsUpTo(_)
StringsUpTo(n) ==
    IF n = 0 THEN {<<>>}
    ELSE LET shorter == StringsUpTo(n - 1)
         IN  shorter \cup {Append(s, c) : s \in {t \in shorter : Len(t) = n - 1}, c \in NameChars}

InitNormalize == applied \in {<<s>> : s \in StringsUpTo(MaxNameLen) \cup {NaN}}

ParkedNormalize == applied = <<>>

Normalize ==
    /\ prog = "normalize"
    /\ Len(applied) <= MaxApplied
    /\ applied' = Append(applied, normalize_company_name(applied[Len(applied)]))
    /\ UNCHANGED <<prog, api_token, varsPipeline, varsRun, varsLookup, varsCall,
                   varsPredict, varsPredictTx>>

(***************************************************************************)
(* fincrime_pipeline.py: the Kubeflow pipeline.                            *)
(***************************************************************************)
Range(f) == {f[i] : i \in DOMAIN f}

\* SelectSeq with the order of the list kept: [c for c in cols if c in/not in s]
InList(cols, present) == SelectSeq(cols, LAMBDA c : c \in present)
NotInList(cols, present) == SelectSeq(cols, LAMBDA c : c \notin present)

required_cols == <<"transaction_id", "originator_name", "beneficiary_name",
                   "amount", "currency", "value_date",
                   "originator_country", "beneficiary_country", "purpose">>
optional_cols == <<"industry", "transaction_type", "channel",
                   "customer_segment", "relationship_length", "product">>
\* columns an input table may carry that neither list names
OtherCols == {"notes"}

\* the column sets of the input tables: up to MaxMissing required columns
\* absent, up to MaxOptional optional columns and any other column present
ColumnSets ==
    {(Range(required_cols) \ d) \cup o \cup x :
        d \in {m \in SUBSET Range(required_cols) : Cardinality(m) <= MaxMissing},
        o \in {m \in SUBSET Range(optional_cols) : Cardinality(m) <= MaxOptional},
        x \in SUBSET OtherCols}

TxnId(i) == <<"T", i>>

SourceTables ==
    {[cols |-> c, ids |-> [i \in 1..n |-> TxnId(i)]] : c \in ColumnSets, n \in 0..MaxRows}

Tasks == {"extract_transactions", "build_prompts", "llm_score",
          "persist_outputs", "generate_dashboard"}

\* pipeline(): a task consumes the output artifact of the task it depends on,
\* and Kubeflow starts it once every task it depends on has succeeded
DependsOnNothing(t) == {}

DependsOn(t) ==
    CASE t = "extract_transactions" -> {}
      [] t = "build_prompts" -> {"extract_transactions"}
      [] t = "llm_score" -> {"build_prompts"}
      [] t = "persist_outputs" -> {"llm_score"}
      [] t = "generate_dashboard" -> {"llm_score"}

CanStart(t) ==
    /\ prog = "pipeline"
    /\ task[t] = "pending"
    /\ \A u \in DependsOn(t) : task[u] = "succeeded"

ExportFiles == {"decisions.csv", "risk_summary.csv", "reason_summary.csv"}

InitPipeline ==
    /\ source \in SourceTables
    /\ task = [t \in Tasks |-> "pending"]
    /\ raw = NoFile
    /\ prompts = NoFile
    /\ responses = <<>>
    /\ results = <<>>
    /\ scored = NoFile
    /\ exported = [f \in ExportFiles |-> NoFile]
    /\ error = NoError

ParkedPipeline ==
    /\ source = [cols |-> {}, ids |-> <<>>]
    /\ task = [t \in Tasks |-> "pending"]
    /\ raw = NoFile
    /\ prompts = NoFile
    /\ responses = <<>>
    /\ results = <<>>
    /\ scored = NoFile
    /\ exported = [f \in ExportFiles |-> NoFile]
    /\ error = NoError

\* ---- extract_transactions
\* missing = [c for c in required_cols if c not in df.columns]
MissingColumnsFirstOnly(required, present) ==
    IF NotInList(required, present) = <<>> THEN <<>>
    ELSE <<Head(NotInList(required, present))>>

MissingColumns(required, present) == NotInList(required, present)

\* keep_cols = required_cols + [c for c in optional_cols if c in df.columns]
KeepColsEveryColumn(present) ==
    required_cols \o InList(optional_cols, present) \o InList(<<"notes">>, present)

KeepCols(present) == required_cols \o InList(optional_cols, present)

\* what extract_transactions leaves at output.path: nothing when it raised
\* before df.to_parquet
ExtractArtifactUnchecked(src) ==
    File([cols |-> InList(required_cols \o optional_cols, src.cols), ids |-> src.ids])

ExtractArtifact(src) ==
    IF MissingColumns(required_cols, src.cols) # <<>> THEN NoFile
    ELSE File([cols |-> KeepCols(src.cols), ids |-> src.ids])

extract_transactions ==
    /\ CanStart("extract_transactions")
    /\ raw' = ExtractArtifact(source)
    /\ LET missing == MissingColumns(required_cols, source.cols)
       IN  IF missing # <<>>
           THEN /\ task' = [task EXCEPT !["extract_transactions"] = "failed"]
                /\ error' = [type |-> "ValueError", task |-> "extract_transactions",
                             missing |-> missing]
           ELSE /\ task' = [task EXCEPT !["extract_transactions"] = "succeeded"]
                /\ UNCHANGED error
    /\ UNCHANGED <<prog, source, prompts, responses, results, scored, exported, api_token, varsRun, varsLookup, varsNormalize, varsCall,
                   varsPredict, varsPredictTx>>

\* ---- build_prompts
\* one prompt per row: the "col: value" pairs of every column but
\* transaction_id, and the row's transaction_id
PromptOfFirstRow(table, i) == [transaction_id |-> table.ids[1], prompt |-> <<>>]

PromptOf(table, i) ==
    [transaction_id |-> table.ids[i],
     prompt |-> [j \in 1..Len(NotInList(table.cols, {"transaction_id"})) |->
                   [col |-> NotInList(table.cols, {"transaction_id"})[j], row |-> i]]]

build_prompts ==
    /\ CanStart("build_prompts")
    /\ IF ~raw.written
       THEN /\ task' = [task EXCEPT !["build_prompts"] = "failed"]
            /\ error' = [type |-> "FileNotFoundError", task |-> "build_prompts"]
            /\ UNCHANGED prompts
       ELSE /\ prompts' = File([i \in 1..Len(raw.content.ids) |-> PromptOf(raw.content, i)])
            /\ task' = [task EXCEPT !["build_prompts"] = "succeeded"]
            /\ UNCHANGED error
    /\ UNCHANGED <<prog, source, raw, responses, results, scored, exported, api_token, varsRun, varsLookup, varsNormalize, varsCall,
                   varsPredict, varsPredictTx>>

\* ---- llm_score
\* What one generate_content call can do: raise, answer without a candidate,
\* or answer with a text.
ResponseTexts ==
    {"not json",
     "{\"risk_level\": \"HIGH\", \"reasons\": [\"a\", \"b\"]}",
     "{\"risk_level\": \"LOW\", \"reasons\": \"a\", \"transaction_id\": \"X\"}",
     "{\"reasons\": [\"b\"]}",
     "{\"risk_level\": \"CRITICAL\", \"reasons\": []}",
     "[1]"}

ModelOutcomes ==
    {[kind |-> "raise"], [kind |-> "no_candidates"]}
        \cup {[kind |-> "text", text |-> t] : t \in ResponseTexts}

\* json.loads on the response texts: a JSONDecodeError, or the value.  A JSON
\* array or string inside an object is tagged [list |-> ...] or [text |-> ...].
JsonLoads(text) ==
    CASE text = "{\"risk_level\": \"HIGH\", \"reasons\": [\"a\", \"b\"]}" ->
            [ok |-> TRUE, kind |-> "object",
             fields |-> [risk_level |-> "HIGH", reasons |-> [list |-> <<"a", "b">>]]]
      [] text = "{\"risk_level\": \"LOW\", \"reasons\": \"a\", \"transaction_id\": \"X\"}" ->
            [ok |-> TRUE, kind |-> "object",
             fields |-> [risk_level |-> "LOW", reasons |-> [text |-> "a"],
                         transaction_id |-> <<"X">>]]
      [] text = "{\"reasons\": [\"b\"]}" ->
            [ok |-> TRUE, kind |-> "object", fields |-> [reasons |-> [list |-> <<"b">>]]]
      [] text = "{\"risk_level\": \"CRITICAL\", \"reasons\": []}" ->
            [ok |-> TRUE, kind |-> "object",
             fields |-> [risk_level |-> "CRITICAL", reasons |-> [list |-> <<>>]]]
      [] text = "[1]" -> [ok |-> TRUE, kind |-> "array"]
      [] OTHER -> [ok |-> FALSE]

\* dict.get(key, default)
Get(d, k, default) == IF k \in DOMAIN d THEN d[k] ELSE default

\* d[k] = v on a dict
SetKeyIfAbsent(d, k, v) == [x \in DOMAIN d \cup {k} |-> IF x \in DOMAIN d THEN d[x] ELSE v]

SetKey(d, k, v) == [x \in DOMAIN d \cup {k} |-> IF x = k THEN v ELSE d[x]]

ParseErrorVerdict ==
    [risk_level |-> "UNKNOWN", reasons |-> [list |-> <<"parse_error">>],
     suggested_actions |-> [list |-> <<>>]]

\* the body of llm_score's loop for one row: the verdict appended, or the
\* exception that leaves the loop
ScoreRow(outcome, transaction_id) ==
    IF outcome.kind = "raise"
    THEN [raised |-> TRUE, type |-> "generate_content"]
    ELSE LET loaded == IF outcome.kind = "text" THEN JsonLoads(outcome.text) ELSE [ok |-> FALSE]
             parsed == IF loaded.ok THEN loaded
                       ELSE [ok |-> TRUE, kind |-> "object", fields |-> ParseErrorVerdict]
         IN  IF parsed.kind # "object"
             THEN [raised |-> TRUE, type |-> "TypeError"]
             ELSE [raised |-> FALSE,
                   verdict |-> SetKey(parsed.fields, "transaction_id", transaction_id)]

\* The backend is set up before the first row is read (vertexai.init and
\* GenerativeModel in llm_score, init_vertex and get_model in run_pipeline):
\* an exception raised there is caught nowhere and leaves the function.
InitSwallowed(available) == FALSE

InitRaises(available) == ~available

\* the loop over df.iterrows() has taken every row
LoopDoneAfterFirstRow(done, rows) == Len(done) >= 1 \/ Len(rows) = 0

LoopDone(done, rows) == Len(done) = Len(rows)

llm_score_init ==
    /\ CanStart("llm_score")
    /\ \E available \in BOOLEAN :
         /\ task' = [task EXCEPT !["llm_score"] =
                        IF InitRaises(available) \/ ~prompts.written
                        THEN "failed" ELSE "running"]
         /\ error' = IF ~available
                     THEN [type |-> "ModelUnavailable", task |-> "llm_score"]
                     ELSE IF ~prompts.written
                     THEN [type |-> "FileNotFoundError", task |-> "llm_score"]
                     ELSE error
    /\ results' = <<>>
    /\ UNCHANGED <<prog, source, raw, prompts, responses, scored, exported, api_token, varsRun, varsLookup, varsNormalize, varsCall,
                   varsPredict, varsPredictTx>>

llm_score_row ==
    /\ prog = "pipeline"
    /\ task["llm_score"] = "running"
    /\ ~LoopDone(results, prompts.content)
    /\ \E outcome \in ModelOutcomes :
         LET r == ScoreRow(outcome, prompts.content[Len(results) + 1].transaction_id)
         IN  /\ responses' = Append(responses, outcome)
             /\ IF r.raised
                THEN /\ task' = [task EXCEPT !["llm_score"] = "failed"]
                     /\ error' = [type |-> r.type, task |-> "llm_score"]
                     /\ UNCHANGED results
                ELSE /\ results' = Append(results, r.verdict)
                     /\ UNCHANGED <<task, error>>
    /\ UNCHANGED <<prog, source, raw, prompts, scored, exported, api_token, varsRun, varsLookup, varsNormalize, varsCall,
                   varsPredict, varsPredictTx>>

\* ---- pd.DataFrame(results).to_parquet and pd.read_parquet
\* the verdict keys whose value can be a JSON array
ListColumns == {"reasons", "suggested_actions"}

\* the kinds of value ("list", "text") a column holds, NaN left aside
KindsIn(rows, col) ==
    UNION {DOMAIN rows[i][col] : i \in {j \in DOMAIN rows : col \in DOMAIN rows[j]}}

\* pyarrow converts an object column that holds lists and strings to no
\* type: to_parquet raises ArrowInvalid
ToParquetRaises(rows) ==
    \E col \in ListColumns : {"list", "text"} \subseteq KindsIn(rows, col)

\* read_parquet gives a list cell back as a numpy array
ArrayOf(v) == IF "list" \in DOMAIN v THEN [array |-> v.list] ELSE v

read_parquet(rows) ==
    [i \in DOMAIN rows |->
        [k \in DOMAIN rows[i] |->
            IF k \in ListColumns THEN ArrayOf(rows[i][k]) ELSE rows[i][k]]]

llm_score_write ==
    /\ prog = "pipeline"
    /\ task["llm_score"] = "running"
    /\ LoopDone(results, prompts.content)
    /\ IF ToParquetRaises(results)
       THEN /\ task' = [task EXCEPT !["llm_score"] = "failed"]
            /\ error' = [type |-> "ArrowInvalid", task |-> "llm_score"]
            /\ UNCHANGED scored
       ELSE /\ task' = [task EXCEPT !["llm_score"] = "succeeded"]
            /\ scored' = File(results)
            /\ UNCHANGED error
    /\ UNCHANGED <<prog, source, raw, prompts, responses, results, exported, api_token, varsRun, varsLookup, varsNormalize, varsCall,
                   varsPredict, varsPredictTx>>

\* ---- persist_outputs
persist_outputs ==
    /\ CanStart("persist_outputs")
    /\ IF ~scored.written
       THEN /\ task' = [task EXCEPT !["persist_outputs"] = "failed"]
            /\ error' = [type |-> "FileNotFoundError", task |-> "persist_outputs"]
            /\ UNCHANGED exported
       ELSE /\ exported' = [exported EXCEPT !["decisions.csv"] = File(scored.content)]
            /\ task' = [task EXCEPT !["persist_outputs"] = "succeeded"]
            /\ UNCHANGED error
    /\ UNCHANGED <<prog, source, raw, prompts, responses, results, scored, api_token, varsRun, varsLookup, varsNormalize, varsCall,
                   varsPredict, varsPredictTx>>

\* ---- generate_dashboard
\* pd.DataFrame(results): the columns are the keys of the verdicts, and a
\* verdict without a key holds NaN there
ColumnsOf(rows) == UNION {DOMAIN rows[i] : i \in DOMAIN rows}

\* df.groupby(col).size(): the rows whose value is NaN are in no group
GroupSizes(rows, col) ==
    LET have == {i \in DOMAIN rows : col \in DOMAIN rows[i]}
    IN  [v \in {rows[i][col] : i \in have} |->
            Cardinality({i \in have : rows[i][col] = v})]

\* x if isinstance(x, list) else [x], then explode: a Python list explodes to
\* its elements, any other value (a string, a numpy array) is wrapped in a
\* list and comes back as the one element; NaN stays NaN and an empty list
\* explodes to NaN, in no group of the later groupby
ReasonsOf(row) ==
    IF "reasons" \notin DOMAIN row THEN <<>>
    ELSE IF "list" \in DOMAIN row.reasons
    THEN [j \in DOMAIN row.reasons.list |-> [text |-> row.reasons.list[j]]]
    ELSE <<row.reasons>>

ExplodedReasons(rows) ==
    UNION {{<<i, j>> : j \in 1..Len(ReasonsOf(rows[i]))} : i \in DOMAIN rows}

\* exploded.groupby("reasons") hashes the values: a numpy array is unhashable
GroupByRaises(rows) ==
    \E p \in ExplodedReasons(rows) : "array" \in DOMAIN ReasonsOf(rows[p[1]])[p[2]]

ReasonCounts(rows) ==
    LET pairs == ExplodedReasons(rows)
    IN  [v \in {ReasonsOf(rows[p[1]])[p[2]].text : p \in pairs} |->
            Cardinality({p \in pairs : ReasonsOf(rows[p[1]])[p[2]].text = v})]

generate_dashboard ==
    /\ CanStart("generate_dashboard")
    /\ LET results_df == read_parquet(scored.content)
       IN  IF ~scored.written
           THEN /\ task' = [task EXCEPT !["generate_dashboard"] = "failed"]
                /\ error' = [type |-> "FileNotFoundError", task |-> "generate_dashboard"]
                /\ UNCHANGED exported
           ELSE IF "risk_level" \notin ColumnsOf(results_df)
           THEN /\ task' = [task EXCEPT !["generate_dashboard"] = "failed"]
                /\ error' = [type |-> "KeyError", task |-> "generate_dashboard"]
                /\ UNCHANGED exported
           ELSE IF "reasons" \in ColumnsOf(results_df) /\ GroupByRaises(results_df)
           THEN /\ task' = [task EXCEPT !["generate_dashboard"] = "failed"]
                /\ error' = [type |-> "TypeError", task |-> "generate_dashboard"]
                /\ exported' = [exported EXCEPT
                      !["risk_summary.csv"] = File(GroupSizes(results_df, "risk_level"))]
           ELSE /\ task' = [task EXCEPT !["generate_dashboard"] = "succeeded"]
                /\ exported' =
                     [exported EXCEPT
                        !["risk_summary.csv"] = File(GroupSizes(results_df, "risk_level")),
                        !["reason_summary.csv"] =
                            IF "reasons" \in ColumnsOf(results_df)
                            THEN File(ReasonCounts(results_df))
                            ELSE @]
                /\ UNCHANGED error
    /\ UNCHANGED <<prog, source, raw, prompts, responses, results, scored, api_token, varsRun, varsLookup, varsNormalize, varsCall,
                   varsPredict, varsPredictTx>>

NextPipeline ==
    \/ extract_transactions
    \/ build_prompts
    \/ llm_score_init
    \/ llm_score_row
    \/ llm_score_write
    \/ persist_outputs
    \/ generate_dashboard

(***************************************************************************)
(* vertex_ai_fincrime_pipeline_final.py: the registry client.              *)
(***************************************************************************)
ShellLtd == <<"S","h","e","l","l"," ","L","t","d">>
AcmeSA == <<"A","c","m","e","_","S","A">>
\* the counterparty names of the input tables
CompanyNames == {ShellLtd, AcmeSA}

\* n.split(" ")[0]
RECURSIVE FirstWord(_)
FirstWord(n) ==
    IF n = <<>> \/ Head(n) = " " THEN <<>> ELSE <<Head(n)>> \o FirstWord(Tail(n))

\* heuristics.get(word, (None, None))
HeuristicNoMatch(word) == [code |-> None, label |-> None]

Heuristic(word) ==
    CASE word = <<"S","H","E","L","L">> -> [code |-> "4731", label |-> "Wholesale of fuel"]
      [] word = <<"T","E","S","C","O">> -> [code |-> "4711", label |-> "Supermarkets"]
      [] word = <<"M","I","C","R","O","S","O","F","T">> ->
            [code |-> "6201", label |-> "Software development"]
      [] word = <<"A","P","P","L","E">> -> [code |-> "4651", label |-> "Wholesale of computers"]
      [] word = <<"A","M","A","Z","O","N">> -> [code |-> "4791", label |-> "E-commerce"]
      [] OTHER -> [code |-> None, label |-> None]

fallback_stub_profile(name) ==
    LET h == Heuristic(FirstWord(normalize_company_name(name)))
    IN  [input_name |-> name, canonical_name |-> name, jurisdiction |-> None,
         registry_url |-> None, sic |-> None, nace |-> h.code, naics |-> None,
         industry_label |-> h.label, source |-> "stub"]

\* The first item of a search answer.  An industry code's scheme name is kept
\* as the set of the words "sic", "nace", "naics" its lower case contains.
RegistryCompanies ==
    {[name |-> "SHELL PLC", jurisdiction_code |-> "gb",
      opencorporates_url |-> "https://opencorporates.com/companies/gb/1",
      industry_codes |->
        <<[code |-> "46.71", description |-> "Wholesale of fuels", scheme |-> {"nace"}],
          [code |-> "4731", description |-> None, scheme |-> {"sic"}],
          [code |-> "47300", description |-> "Retail sale of fuel", scheme |-> {"sic"}]>>],
     [name |-> "ACME SA", jurisdiction_code |-> "fr",
      opencorporates_url |-> "https://opencorporates.com/companies/fr/2",
      industry_codes |-> <<>>]}

\* Python's truth value of an optional string
Falsy(x) == x \in {None, ""}
Or(x, y) == IF Falsy(x) THEN y ELSE x

\* the loop of fetch_industry over industry_codes
RECURSIVE IndustryLoop(_, _)
IndustryLoop(ic_list, acc) ==
    IF ic_list = <<>> THEN acc
    ELSE LET ic == Head(ic_list)
             next ==
                IF "sic" \in ic.scheme /\ Falsy(acc.sic)
                THEN [acc EXCEPT !.sic = ic.code, !.label = Or(ic.description, acc.label)]
                ELSE IF "nace" \in ic.scheme /\ Falsy(acc.nace)
                THEN [acc EXCEPT !.nace = ic.code, !.label = Or(ic.description, acc.label)]
                ELSE IF "naics" \in ic.scheme /\ Falsy(acc.naics)
                THEN [acc EXCEPT !.naics = ic.code, !.label = Or(ic.description, acc.label)]
                ELSE acc
         IN  IndustryLoop(Tail(ic_list), next)

fetch_industry(c) ==
    LET got == IndustryLoop(c.industry_codes,
                            [sic |-> None, nace |-> None, naics |-> None, label |-> None])
    IN  [input_name |-> c.name, canonical_name |-> c.name,
         jurisdiction |-> c.jurisdiction_code, registry_url |-> c.opencorporates_url,
         sic |-> got.sic, nace |-> got.nace, naics |-> got.naics,
         industry_label |-> got.label, source |-> "opencorporates"]

\* stop_after_attempt(3)
MaxAttempts == 3
\* wait_exponential(multiplier=1, min=1, max=8)
WaitMultiplier == 1
WaitMin == 1
WaitMax == 8

Min(a, b) == IF a <= b THEN a ELSE b
Max(a, b) == IF a >= b THEN a ELSE b

\* the wait after the attempt numbered k has failed
WaitSeconds(k) == Max(WaitMin, Min(WaitMultiplier * 2 ^ (k - 1), WaitMax))

\* How one request of search_company can fail: raise_for_status raises
\* requests.HTTPError on a 4xx or 5xx status, requests.get raises
\* requests.Timeout, and an answer that is not the expected JSON object makes
\* data.get raise AttributeError.
FailureKinds == {"HTTPError 404", "HTTPError 429", "HTTPError 503", "Timeout", "AttributeError"}

\* the classes derived from requests.RequestException
IsRequestException(f) == f \in {"HTTPError 404", "HTTPError 429", "HTTPError 503", "Timeout"}

\* a 4xx status other than 429 (rate limit)
IsNonTransient(f) == f = "HTTPError 404"

\* retry=retry_if_exception_type(requests.RequestException)
RetryIf(f) == IsRequestException(f)

\* stop=stop_after_attempt(3)
StopAfterFour(k) == k >= MaxAttempts + 1

Stop(k) == k >= MaxAttempts

\* lookup's "except Exception"
Catches(f) == TRUE

RegistryOutcomes ==
    {[kind |-> "found", company |-> c] : c \in RegistryCompanies}
        \cup {[kind |-> "empty"]}
        \cup {[kind |-> "failure", failure |-> f] : f \in FailureKinds}

NoProfile == [returned |-> FALSE]
Returned(profile) == [returned |-> TRUE, profile |-> profile]

InitLookup ==
    /\ lookup_name \in CompanyNames
    /\ lpc = "call"
    /\ attempt = 0
    /\ requests_made = 0
    /\ sent = <<>>
    /\ backoff = <<>>
    /\ failures = <<>>
    /\ returned = NoProfile

ParkedLookup ==
    /\ lookup_name = NaN
    /\ lpc = "parked"
    /\ attempt = 0
    /\ requests_made = 0
    /\ sent = <<>>
    /\ backoff = <<>>
    /\ failures = <<>>
    /\ returned = NoProfile

\* lookup, up to its call of search_company
lookup ==
    /\ prog = "lookup"
    /\ lpc = "call"
    /\ IF ~api_token
       THEN /\ returned' = Returned(fallback_stub_profile(lookup_name))
            /\ lpc' = "returned"
            /\ UNCHANGED attempt
       ELSE /\ lpc' = "search"
            /\ attempt' = 1
            /\ UNCHANGED returned
    /\ UNCHANGED <<prog, api_token, lookup_name, requests_made, sent, backoff, failures,
                   varsPipeline, varsRun, varsNormalize, varsCall,
                   varsPredict, varsPredictTx>>

\* one attempt of search_company, and what lookup does with its result
search_company ==
    /\ prog = "lookup"
    /\ lpc = "search"
    /\ requests_made' = requests_made + 1
    /\ sent' = Append(sent, lookup_name)
    /\ \E outcome \in RegistryOutcomes :
         CASE outcome.kind = "found" ->
                /\ returned' = Returned(fetch_industry(outcome.company))
                /\ lpc' = "returned"
                /\ UNCHANGED failures
           [] outcome.kind = "empty" ->
                /\ returned' = Returned(fallback_stub_profile(lookup_name))
                /\ lpc' = "returned"
                /\ UNCHANGED failures
           [] outcome.kind = "failure" ->
                /\ failures' = Append(failures, outcome.failure)
                /\ IF RetryIf(outcome.failure) /\ ~Stop(attempt)
                   THEN /\ lpc' = "wait"
                        /\ UNCHANGED returned
                   ELSE IF Catches(outcome.failure)
                   THEN /\ returned' = Returned(fallback_stub_profile(lookup_name))
                        /\ lpc' = "returned"
                   ELSE /\ lpc' = "raised"
                        /\ UNCHANGED returned
    /\ UNCHANGED <<prog, api_token, lookup_name, attempt, backoff,
                   varsPipeline, varsRun, varsNormalize, varsCall,
                   varsPredict, varsPredictTx>>

\* tenacity sleeps, then calls search_company again
retry_wait ==
    /\ prog = "lookup"
    /\ lpc = "wait"
    /\ backoff' = Append(backoff, WaitSeconds(attempt))
    /\ attempt' = attempt + 1
    /\ lpc' = "search"
    /\ UNCHANGED <<prog, api_token, lookup_name, requests_made, sent, failures, returned,
                   varsPipeline, varsRun, varsNormalize, varsCall,
                   varsPredict, varsPredictTx>>

NextLookup == lookup \/ search_company \/ retry_wait

\* what a call of lookup can return
LookupResults(name) ==
    IF ~api_token THEN {fallback_stub_profile(name)}
    ELSE {fallback_stub_profile(name)} \cup {fetch_industry(c) : c \in RegistryCompanies}

(***************************************************************************)
(* vertex_ai_fincrime_pipeline_final.py: run_pipeline.                     *)
(***************************************************************************)
run_required_cols == {"originator_name", "beneficiary_name"}

\* the rows of a table with the name columns in present: a cell holds a
\* company name or NaN
RowsOver(present) ==
    UNION {[1..n -> [present -> CompanyNames \cup {NaN}]] : n \in 0..MaxTx}

InputTables ==
    UNION {{[cols |-> {"amount"} \cup present, rows |-> r] : r \in RowsOver(present)} :
              present \in SUBSET run_required_cols}

\* set(df[col].dropna().astype(str))
ColumnNames(rows, col) ==
    {AsTypeStr(rows[i][col]) : i \in {j \in DOMAIN rows : rows[j][col] # NaN}}

\* the orders in which a loop can meet the members of a set
Orders(S) == {order \in [1..Cardinality(S) -> S] : Range(order) = S}

\* comps, as the sequence the loop of enrich_companies goes through
CompsEveryCell(rows) ==
    {SelectSeq([i \in 1..Len(rows) |-> rows[i]["originator_name"]], LAMBDA n : n # NaN)
        \o SelectSeq([i \in 1..Len(rows) |-> rows[i]["beneficiary_name"]], LAMBDA n : n # NaN)}

Comps(rows) ==
    Orders(ColumnNames(rows, "originator_name") \cup ColumnNames(rows, "beneficiary_name"))

\* the columns attach adds for one side: row.originator.sic stands for the
\* column originator_sic, and so on
Attached(prof) ==
    [canonical_name |-> prof.canonical_name, jurisdiction |-> prof.jurisdiction,
     registry_url |-> prof.registry_url, sic |-> prof.sic, nace |-> prof.nace,
     naics |-> prof.naics, industry_label |-> prof.industry_label,
     industry_source |-> prof.source]

\* profiles.get(name) or _fallback_stub_profile(name)
ProfileFor(profs, name) ==
    IF name \in DOMAIN profs THEN profs[name] ELSE fallback_stub_profile(name)

AttachRow(profs, row) ==
    [originator_name |-> row["originator_name"],
     beneficiary_name |-> row["beneficiary_name"],
     originator |-> Attached(ProfileFor(profs, row["originator_name"])),
     beneficiary |-> Attached(ProfileFor(profs, row["beneficiary_name"]))]

\* ---- assess_with_gemini
GeminiTexts ==
    {"not json",
     "{\"score\": 80, \"risk\": \"LOW\", \"rationale\": \"ok\"}",
     "{\"score\": 150, \"risk\": \"critical\"}",
     "{\"risk\": \"high\"}",
     "{\"score\": \"abc\", \"risk\": \"low\"}",
     "[1]"}

GeminiOutcomes ==
    {[kind |-> "raise"], [kind |-> "no_text"]}
        \cup {[kind |-> "text", text |-> t] : t \in GeminiTexts}

\* json.loads on the texts above; a JSON number is tagged [num |-> ...], a
\* JSON string where a number is expected [str |-> ...]
GeminiJsonLoads(text) ==
    CASE text = "{\"score\": 80, \"risk\": \"LOW\", \"rationale\": \"ok\"}" ->
            [ok |-> TRUE, kind |-> "object",
             fields |-> [score |-> [num |-> 80], risk |-> "LOW", rationale |-> "ok"]]
      [] text = "{\"score\": 150, \"risk\": \"critical\"}" ->
            [ok |-> TRUE, kind |-> "object",
             fields |-> [score |-> [num |-> 150], risk |-> "critical"]]
      [] text = "{\"risk\": \"high\"}" ->
            [ok |-> TRUE, kind |-> "object", fields |-> [risk |-> "high"]]
      [] text = "{\"score\": \"abc\", \"risk\": \"low\"}" ->
            [ok |-> TRUE, kind |-> "object",
             fields |-> [score |-> [str |-> "abc"], risk |-> "low"]]
      [] text = "[1]" -> [ok |-> TRUE, kind |-> "array"]
      [] OTHER -> [ok |-> FALSE]

\* str.lower on the risk values above
LowerStr(x) ==
    CASE x = "LOW" -> "low"
      [] x = "MEDIUM" -> "medium"
      [] x = "HIGH" -> "high"
      [] OTHER -> x

NonJsonVerdict == [score |-> 50, risk |-> "medium", rationale |-> "Model returned non-JSON."]

\* assess_with_gemini for one row: the verdict returned, or the exception of
\* generate_content, which is called outside the try block
Assess(outcome) ==
    IF outcome.kind = "raise"
    THEN [raised |-> TRUE, type |-> "generate_content"]
    ELSE LET loaded == IF outcome.kind = "text" THEN GeminiJsonLoads(outcome.text)
                       ELSE [ok |-> FALSE]
         IN  IF ~loaded.ok \/ loaded.kind # "object"
                \/ "num" \notin DOMAIN Get(loaded.fields, "score", [num |-> 50])
             THEN [raised |-> FALSE, verdict |-> NonJsonVerdict]
             ELSE [raised |-> FALSE,
                   verdict |->
                     SetKey(SetKey(SetKey(loaded.fields,
                         "score", Get(loaded.fields, "score", [num |-> 50]).num),
                         "risk", LowerStr(Get(loaded.fields, "risk", "medium"))),
                         "rationale", Get(loaded.fields, "rationale", ""))]

InitRun ==
    /\ input_csv \in InputTables
    /\ preview_only \in BOOLEAN
    /\ pc = "start"
    /\ comps = <<>>
    /\ profiles = <<>>
    /\ lookup_calls = [n \in CompanyNames |-> 0]
    /\ df = <<>>
    /\ assessments = <<>>
    /\ output_csv = NoFile
    /\ run_error = NoError

ParkedRun ==
    /\ input_csv = [cols |-> {}, rows |-> <<>>]
    /\ preview_only = FALSE
    /\ pc = "parked"
    /\ comps = <<>>
    /\ profiles = <<>>
    /\ lookup_calls = [n \in CompanyNames |-> 0]
    /\ df = <<>>
    /\ assessments = <<>>
    /\ output_csv = NoFile
    /\ run_error = NoError

\* run_pipeline from pd.read_csv to the first statement of enrich_companies
run_pipeline_start ==
    /\ prog = "run_pipeline"
    /\ pc = "start"
    /\ LET missing == run_required_cols \ input_csv.cols
       IN  IF missing # {}
           THEN /\ pc' = "raised"
                /\ run_error' = [type |-> "ValueError", missing |-> missing]
                /\ UNCHANGED comps
           ELSE /\ pc' = "enrich"
                /\ comps' \in Comps(input_csv.rows)
                /\ UNCHANGED run_error
    /\ UNCHANGED <<prog, api_token, input_csv, preview_only, profiles, lookup_calls, df,
                   assessments, output_csv, varsPipeline, varsLookup, varsNormalize, varsCall,
                   varsPredict, varsPredictTx>>

\* one turn of the loop of enrich_companies: profiles[name] = oc.lookup(name)
enrich_lookup ==
    /\ prog = "run_pipeline"
    /\ pc = "enrich"
    /\ comps # <<>>
    /\ \E prof \in LookupResults(Head(comps)) :
         profiles' = [n \in DOMAIN profiles \cup {Head(comps)} |->
                        IF n = Head(comps) THEN prof ELSE profiles[n]]
    /\ lookup_calls' = [lookup_calls EXCEPT ![Head(comps)] = @ + 1]
    /\ comps' = Tail(comps)
    /\ UNCHANGED <<prog, api_token, input_csv, preview_only, pc, df, assessments,
                   output_csv, run_error, varsPipeline, varsLookup, varsNormalize, varsCall,
                   varsPredict, varsPredictTx>>

\* the two df.apply(attach) of enrich_companies
enrich_attach ==
    /\ prog = "run_pipeline"
    /\ pc = "enrich"
    /\ comps = <<>>
    /\ df' = [i \in 1..Len(input_csv.rows) |-> AttachRow(profiles, input_csv.rows[i])]
    /\ pc' = IF preview_only THEN "write" ELSE "init_vertex"
    /\ UNCHANGED <<prog, api_token, input_csv, preview_only, comps, profiles, lookup_calls,
                   assessments, output_csv, run_error, varsPipeline, varsLookup,
                   varsNormalize, varsCall,
                   varsPredict, varsPredictTx>>

\* init_vertex and get_model
init_vertex ==
    /\ prog = "run_pipeline"
    /\ pc = "init_vertex"
    /\ \E available \in BOOLEAN :
         /\ pc' = IF InitRaises(available) THEN "raised" ELSE "assess"
         /\ run_error' = IF available THEN run_error ELSE [type |-> "ModelUnavailable"]
    /\ UNCHANGED <<prog, api_token, input_csv, preview_only, comps, profiles, lookup_calls,
                   df, assessments, output_csv, varsPipeline, varsLookup, varsNormalize, varsCall,
                   varsPredict, varsPredictTx>>

\* one turn of the loop over df.iterrows()
assess_row ==
    /\ prog = "run_pipeline"
    /\ pc = "assess"
    /\ ~LoopDone(assessments, df)
    /\ \E outcome \in GeminiOutcomes :
         LET r == Assess(outcome)
         IN  IF r.raised
             THEN /\ pc' = "raised"
                  /\ run_error' = [type |-> r.type]
                  /\ UNCHANGED assessments
             ELSE /\ assessments' = Append(assessments, r.verdict)
                  /\ UNCHANGED <<pc, run_error>>
    /\ UNCHANGED <<prog, api_token, input_csv, preview_only, comps, profiles, lookup_calls,
                   df, output_csv, varsPipeline, varsLookup, varsNormalize, varsCall,
                   varsPredict, varsPredictTx>>

\* pd.concat and df.to_csv
write_csv ==
    /\ prog = "run_pipeline"
    /\ \/ pc = "write"
       \/ pc = "assess" /\ LoopDone(assessments, df)
    /\ output_csv' = File([i \in 1..Len(df) |->
                             IF preview_only THEN [tx |-> df[i]]
                             ELSE IF i \in DOMAIN assessments
                             THEN [tx |-> df[i], assessment |-> assessments[i]]
                             ELSE [tx |-> df[i], assessment |-> "NaN"]])
    /\ pc' = "done"
    /\ UNCHANGED <<prog, api_token, input_csv, preview_only, comps, profiles, lookup_calls,
                   df, assessments, run_error, varsPipeline, varsLookup, varsNormalize, varsCall,
                   varsPredict, varsPredictTx>>

NextRun ==
    \/ run_pipeline_start
    \/ enrich_lookup
    \/ enrich_attach
    \/ init_vertex
    \/ assess_row
    \/ write_csv

(***************************************************************************)
(* vertex_ai_fincrime_pipeline_final.py: fetch_industry on any company.    *)
(***************************************************************************)
Schemes == {"sic", "nace", "naics"}

\* One entry of a company's industry_codes: its code and description may be
\* null, and its scheme name may contain none of the three words.
IndustryCodeEntries ==
    [code : {"1", "2", None}, description : {"a", "b", None},
     scheme : {{}} \cup {{w} : w \in Schemes}]

RECURSIVE ListsUpTo(_, _)
ListsUpTo(S, n) ==
    IF n = 0 THEN {<<>>}
    ELSE ListsUpTo(S, n - 1)
            \cup {Append(l, x) : l \in {m \in ListsUpTo(S, n - 1) : Len(m) = n - 1}, x \in S}

\* the "company" object of a search result
CompaniesWithCodes ==
    {[name |-> "SHELL PLC", jurisdiction_code |-> "gb",
      opencorporates_url |-> "https://opencorporates.com/companies/gb/1",
      industry_codes |-> l] : l \in ListsUpTo(IndustryCodeEntries, MaxCodes)}

ParkedCall == args = <<>> /\ ret = NoProfile

InitFetchIndustry ==
    /\ args \in {<<c>> : c \in CompaniesWithCodes}
    /\ ret = NoProfile

FetchIndustry ==
    /\ prog = "fetch_industry"
    /\ ~ret.returned
    /\ ret' = Returned(fetch_industry(args[1]))
    /\ UNCHANGED <<prog, api_token, args, varsPipeline, varsRun, varsLookup, varsNormalize,
                   varsPredict, varsPredictTx>>

(***************************************************************************)
(* vertex_ai_fincrime_pipeline_final.py: enrich_companies on tables whose  *)
(* name cells are strings, integers or NaN.                                *)
(***************************************************************************)
\* pd.read_csv gives a name column that holds only numbers a numeric dtype,
\* and a column with any other text the object dtype, its cells strings
NameCells == {ShellLtd, Int123, NaN}

EnrichTables ==
    {rows \in UNION {[1..n -> [run_required_cols -> NameCells]] : n \in 0..MaxTx} :
        \A c \in run_required_cols :
            ~(\E i, j \in DOMAIN rows : rows[i][c] = Int123 /\ rows[j][c] = ShellLtd)}

\* the dicts the loop over comps can build: one lookup result per member
ProfilesFor(names) ==
    {profs \in [names -> UNION {LookupResults(n) : n \in names}] :
        \A n \in names : profs[n] \in LookupResults(n)}

NoTable == [returned |-> FALSE]

InitEnrichCompanies ==
    /\ args \in {<<rows>> : rows \in EnrichTables}
    /\ ret = NoTable

EnrichCompanies ==
    /\ prog = "enrich_companies"
    /\ ~ret.returned
    /\ \E profs \in ProfilesFor(ColumnNames(args[1], "originator_name")
                                 \cup ColumnNames(args[1], "beneficiary_name")) :
         ret' = [returned |-> TRUE, profiles |-> profs,
                 df |-> [i \in 1..Len(args[1]) |-> AttachRow(profs, args[1][i])]]
    /\ UNCHANGED <<prog, api_token, args, varsPipeline, varsRun, varsLookup, varsNormalize,
                   varsPredict, varsPredictTx>>

(***************************************************************************)
(* static_industry_match_validator.py: the rule table.                     *)
(***************************************************************************)
ALLOWED_RELATIONS ==
    [ind \in {"Semiconductor Manufacturing", "Chemical Manufacturing",
              "Metal Product Manufacturing", "Hospital Activities",
              "Beverage Production", "Machinery Repair", "Wheat Farming",
              "Motor Vehicle Wholesale", "Business Consulting",
              "Advertising Agencies", "Cleaning Services"} |->
        CASE ind = "Semiconductor Manufacturing" ->
                <<"Metal Product Manufacturing", "Chemical Manufacturing">>
          [] ind = "Chemical Manufacturing" ->
                <<"Hospital Activities", "Semiconductor Manufacturing">>
          [] ind = "Metal Product Manufacturing" ->
                <<"Machinery Repair", "Semiconductor Manufacturing">>
          [] ind = "Hospital Activities" -> <<"Chemical Manufacturing">>
          [] ind = "Beverage Production" -> <<"Wheat Farming">>
          [] ind = "Machinery Repair" -> <<"Metal Product Manufacturing">>
          [] ind = "Wheat Farming" -> <<"Beverage Production">>
          [] ind = "Motor Vehicle Wholesale" ->
                <<"Semiconductor Manufacturing", "Machinery Repair">>
          [] ind = "Business Consulting" ->
                <<"Semiconductor Manufacturing", "Chemical Manufacturing">>
          [] ind = "Advertising Agencies" -> <<"Business Consulting">>
          [] ind = "Cleaning Services" -> <<"Hospital Activities", "Business Consulting">>]

\* The industry cell of a merged row: a label of the companies file (one of
\* them is in no rule), or NaN where the left merge found no company; None
\* is what a caller passes for a null.
NaNLabel == "<NaN>"
IndustryLabels == DOMAIN ALLOWED_RELATIONS \cup {"Retail Trade", NaNLabel, None}

\* pd.isna on a scalar
IsNaNoneOnly(x) == x = None

IsNa(x) == x \in {NaNLabel, None}

validate_match(ind1, ind2) ==
    IF IsNa(ind1) \/ IsNa(ind2) THEN "Unknown"
    ELSE IF ind2 \in Range(Get(ALLOWED_RELATIONS, ind1, <<>>)) THEN "Valid"
    ELSE "Mismatch"

NoVerdict == [returned |-> FALSE]

InitValidateMatch ==
    /\ args \in IndustryLabels \X IndustryLabels
    /\ ret = NoVerdict

ValidateMatch ==
    /\ prog = "validate_match"
    /\ ~ret.returned
    /\ ret' = [returned |-> TRUE, verdict |-> validate_match(args[1], args[2])]
    /\ UNCHANGED <<prog, api_token, args, varsPipeline, varsRun, varsLookup, varsNormalize,
                   varsPredict, varsPredictTx>>

(***************************************************************************)
(* trigger_pipeline/main.py: the Cloud Function a storage event starts.    *)
(***************************************************************************)
DotCsv == <<".","c","s","v">>
DotParquet == <<".","p","a","r","q","u","e","t">>

\* str.endswith
EndsWith(s, suffix) ==
    /\ Len(s) >= Len(suffix)
    /\ SubSeq(s, Len(s) - Len(suffix) + 1, Len(s)) = suffix

\* The events: a key may be absent (event.get gives None) or hold a string.
EventBuckets == {<<>>, <<"b">>}
EventNames == {<<>>, <<"a">> \o DotCsv, <<"a">> \o DotParquet, DotCsv,
               <<"a",".","t","x","t">>, <<"a",".","C","S","V">>, <<"a","c","s","v">>,
               <<"a">> \o DotCsv \o <<".","b","a","k">>, <<"d","/","a">> \o DotCsv}
StorageEvents ==
    {[k \in {} |-> <<>>]}
    \cup {[bucket |-> b] : b \in EventBuckets}
    \cup {[name |-> n] : n \in EventNames}
    \cup {[bucket |-> b, name |-> n] : b \in EventBuckets, n \in EventNames}

\* the environment variables read with os.environ[...]
RequiredEnv == {"PROJECT_ID", "STAGING_BUCKET", "EXPORT_URI"}

\* "not event.get(key)": the key is absent or holds the empty string
Missing(event, key) == key \notin DOMAIN event \/ event[key] = <<>>

Supported(name) == EndsWith(name, DotCsv) \/ EndsWith(name, DotParquet)

\* f"gs://{bucket}/{name}"
InputUri(bucket, name) == <<"g","s",":","/","/">> \o bucket \o <<"/">> \o name

\* aiplatform.PipelineJob.__init__: the keywords it takes (the other callers
\* of this repository pass the template as template_path) and the ones it
\* cannot do without; any other keyword is a TypeError
PipelineJobParams ==
    {"display_name", "template_path", "job_id", "pipeline_root", "parameter_values",
     "input_artifacts", "enable_caching", "encryption_spec_key_name", "labels",
     "credentials", "project", "location", "failure_policy",
     "enable_preflight_validations"}
PipelineJobRequired == {"display_name", "template_path"}
PipelineJobRaises(keywords) ==
    ~(keywords \subseteq PipelineJobParams) \/ ~(PipelineJobRequired \subseteq keywords)

\* the keywords trigger_pipeline passes
TriggerKeywords == {"display_name", "pipeline_root", "pipeline_spec", "parameter_values"}

Raised(type, inits, jobs) ==
    [returned |-> TRUE, raised |-> type, inits |-> inits, jobs |-> jobs]

\* env: the environment variables that are set; init_ok: aiplatform.init succeeds;
\* run_ok: job.run(sync=False) submits the job
trigger_pipeline(event, env, init_ok, run_ok) ==
    IF ~(RequiredEnv \subseteq env) THEN Raised("KeyError", 0, <<>>)
    ELSE IF Missing(event, "bucket") \/ Missing(event, "name") THEN Raised("none", 0, <<>>)
    ELSE IF ~Supported(event.name) THEN Raised("none", 0, <<>>)
    ELSE LET input_uri == InputUri(event.bucket, event.name) IN
         IF ~init_ok THEN Raised("GoogleAPIError", 0, <<>>)
         ELSE IF PipelineJobRaises(TriggerKeywords) THEN Raised("TypeError", 1, <<>>)
         ELSE IF ~run_ok THEN Raised("GoogleAPIError", 1, <<>>)
         ELSE Raised("none", 1, <<[gcs_input_uri |-> input_uri]>>)

NoReturn == [returned |-> FALSE]

InitTriggerPipeline ==
    /\ args \in StorageEvents \X (SUBSET RequiredEnv)
    /\ ret = NoReturn

TriggerPipeline ==
    /\ prog = "trigger_pipeline"
    /\ ~ret.returned
    /\ \E init_ok, run_ok \in BOOLEAN :
         ret' = trigger_pipeline(args[1], args[2], init_ok, run_ok)
    /\ UNCHANGED <<prog, api_token, args, varsPipeline, varsRun, varsLookup, varsNormalize,
                   varsPredict, varsPredictTx>>

(***************************************************************************)
(* pravin/predict.py: the prediction handler and its module globals.       *)
(***************************************************************************)
Descriptions == {"Crude Petroleum", "Natural Gas"}

\* an instance is [desc1, desc2]; a request may also carry a shorter list
Instances == {<<d1, d2>> : d1, d2 \in Descriptions} \cup {<<"Crude Petroleum">>}
InstanceLists == ListsUpTo(Instances, MaxInstances)

\* request bodies: with or without the key "instances"
Requests == {[k \in {} |-> <<>>]} \cup {[instances |-> l] : l \in InstanceLists}

\* kmeans.predict on the embedding of a description: its cluster id
ClusterOf(desc) == IF desc = "Crude Petroleum" THEN 0 ELSE 1

\* what load_model can do: set both globals; fail to open or unpickle the
\* file; find no key "kmeans" after it has set model
LoadOutcomes == {"loaded", "FileNotFoundError", "KeyError"}

ModelAfter(outcome, before) == IF outcome = "FileNotFoundError" THEN before ELSE "SentenceTransformer"
KMeansAfter(outcome, before) == IF outcome = "loaded" THEN "KMeans" ELSE before

\* "if model is None or kmeans is None"
NeedsLoadAlways(m, k) == TRUE

NeedsLoad(m, k) == m = None \/ k = None

\* the body of the loop of predict
PredictOne(instance) ==
    LET cl1 == ClusterOf(instance[1])
        cl2 == ClusterOf(instance[2])
    IN  [same_cluster |-> cl1 = cl2, cluster1 |-> cl1, cluster2 |-> cl2]

\* the loop: the predictions so far, up to the first instance that is too short
RECURSIVE PredictLoop(_, _)
PredictLoop(instances, predictions) ==
    IF instances = <<>> THEN [raised |-> "none", predictions |-> predictions]
    ELSE IF Len(Head(instances)) < 2 THEN [raised |-> "IndexError"]
    ELSE PredictLoop(Tail(instances), Append(predictions, PredictOne(Head(instances))))

ParkedPredict ==
    /\ model = None
    /\ kmeans = None
    /\ loads = <<>>
    /\ calls = 0
    /\ last = [raised |-> "not called"]

InitPredict == ParkedPredict

\* one call of predict(instances)
Predict(instances) ==
    /\ prog = "predict"
    /\ calls < MaxCalls
    /\ calls' = calls + 1
    /\ IF NeedsLoad(model, kmeans)
       THEN \E outcome \in LoadOutcomes :
              /\ loads' = Append(loads, [model |-> model, kmeans |-> kmeans, outcome |-> outcome])
              /\ model' = ModelAfter(outcome, model)
              /\ kmeans' = KMeansAfter(outcome, kmeans)
              /\ last' = IF outcome = "loaded"
                         THEN [instances |-> instances] @@ PredictLoop(instances, <<>>)
                         ELSE [instances |-> instances, raised |-> outcome]
       ELSE /\ UNCHANGED <<model, kmeans, loads>>
            /\ last' = [instances |-> instances] @@ PredictLoop(instances, <<>>)
    /\ UNCHANGED <<prog, api_token, varsPipeline, varsRun, varsLookup, varsNormalize,
                   varsCall, varsPredictTx>>

\* handler(request): request.get('instances', [])
Handler ==
    \E request \in Requests :
        Predict(IF "instances" \in DOMAIN request THEN request.instances ELSE <<>>)

PredictDirect == \E instances \in InstanceLists : Predict(instances)

NextPredict == Handler \/ PredictDirect

(***************************************************************************)
(* ml_pipeline/predict_function/main.py: predict_transaction, started once *)
(* for every uploaded file; the invocations share the two BigQuery tables. *)
(***************************************************************************)
Invocations == {1, 2}

\* the file whose upload started the invocation; "earlier.csv" is a file an
\* earlier invocation has handled
FileOf(i) == IF i = 1 THEN "one.csv" ELSE "two.csv"
TableContents == {"no rows", "earlier.csv"} \cup {FileOf(i) : i \in Invocations}

NotStarted == [pc |-> "load", status |-> "running", predicted |-> "nothing"]

ParkedPredictTx ==
    /\ invocation = [i \in Invocations |-> NotStarted]
    /\ staging_table = "no rows"
    /\ prediction_table = "no rows"

InitPredictTx ==
    /\ invocation = [i \in Invocations |-> NotStarted]
    /\ staging_table \in {"no rows", "earlier.csv"}
    /\ prediction_table \in {"no rows", "earlier.csv"}

\* line 53: the load job is submitted
LoadTableFromUri(i) ==
    /\ prog = "predict_transaction"
    /\ invocation[i].pc = "load"
    /\ invocation' = [invocation EXCEPT ![i].pc = "load_job.result"]
    /\ UNCHANGED <<prog, api_token, staging_table, prediction_table, varsPipeline, varsRun,
                   varsLookup, varsNormalize, varsCall, varsPredict>>

\* line 54: the load job replaces the rows of the staging table
\* (WRITE_TRUNCATE) by the rows of the file, or fails and leaves it alone
LoadJobResult(i) ==
    /\ prog = "predict_transaction"
    /\ invocation[i].pc = "load_job.result"
    /\ \/ /\ staging_table' = FileOf(i)
          /\ invocation' = [invocation EXCEPT ![i].pc = "query"]
       \/ /\ UNCHANGED staging_table
          /\ invocation' = [invocation EXCEPT ![i].pc = "done", ![i].status = "error"]
    /\ UNCHANGED <<prog, api_token, prediction_table, varsPipeline, varsRun, varsLookup,
                   varsNormalize, varsCall, varsPredict>>

\* line 80: the query is submitted
Query(i) ==
    /\ prog = "predict_transaction"
    /\ invocation[i].pc = "query"
    /\ invocation' = [invocation EXCEPT ![i].pc = "query_job.result"]
    /\ UNCHANGED <<prog, api_token, staging_table, prediction_table, varsPipeline, varsRun,
                   varsLookup, varsNormalize, varsCall, varsPredict>>

\* lines 81-88: CREATE OR REPLACE TABLE ... FROM ML.PREDICT(MODEL, TABLE staging)
\* predicts the rows the staging table holds when the query runs
QueryJobResult(i) ==
    /\ prog = "predict_transaction"
    /\ invocation[i].pc = "query_job.result"
    /\ \/ /\ prediction_table' = staging_table
          /\ invocation' = [invocation EXCEPT ![i] =
                              [pc |-> "done", status |-> "success", predicted |-> staging_table]]
       \/ /\ UNCHANGED prediction_table
          /\ invocation' = [invocation EXCEPT ![i].pc = "done", ![i].status = "error"]
    /\ UNCHANGED <<prog, api_token, staging_table, varsPipeline, varsRun, varsLookup,
                   varsNormalize, varsCall, varsPredict>>

NextPredictTx ==
    \E i \in Invocations :
        LoadTableFromUri(i) \/ LoadJobResult(i) \/ Query(i) \/ QueryJobResult(i)

(***************************************************************************)
(* ml_pipeline/train_function/main.py: train_model.                        *)
(***************************************************************************)
TRAIN_BUCKET == "sonic-totem-469814-q5-train-data"

\* request.get_json(silent=True): None, or the JSON object of the body
RequestBodies ==
    {[json |-> FALSE]}
    \cup {[json |-> TRUE, body |-> b] :
            b \in {[k \in {} |-> ""], [file_name |-> "named.csv"], [note |-> "retrain"]}}

\* the listing of the training bucket: objects with their update times
BlobNames == {"jan.csv", "feb.csv", "mar.csv"}
Listings ==
    {l \in ListsUpTo([name : BlobNames, updated : 1..MaxBlobs], MaxBlobs) :
        \A i, j \in DOMAIN l : i # j => l[i].name # l[j].name}

\* the calls of train_model that can raise
TrainSteps == {"storage.Client", "list_blobs", "load_table_from_uri", "load_job.result",
               "query.result"}

\* "request_json and 'file_name' in request_json"
NamesFile(request_json) ==
    request_json.json /\ "file_name" \in DOMAIN request_json.body

\* blobs.sort(key=lambda b: b.updated, reverse=True); blobs[0]: the sort is
\* stable, so of the objects updated last the one listed first
LatestBlobFirstListed(blobs) == blobs[1]

LatestBlob(blobs) ==
    blobs[CHOOSE i \in DOMAIN blobs :
            /\ \A j \in DOMAIN blobs : blobs[j].updated <= blobs[i].updated
            /\ \A j \in 1..(i - 1) : blobs[j].updated < blobs[i].updated]

ErrorResponse(code, done) ==
    [returned |-> TRUE, raised |-> "none", status |-> "error", code |-> code, done |-> done]

\* fails: the calls that raise in this run; done: the calls that completed
train_model(request_json, blobs, fails) ==
    IF "storage.Client" \in fails THEN ErrorResponse(500, <<>>)
    ELSE IF ~NamesFile(request_json) /\ "list_blobs" \in fails THEN ErrorResponse(500, <<>>)
    ELSE IF ~NamesFile(request_json) /\ blobs = <<>> THEN ErrorResponse(400, <<>>)
    ELSE LET file_name == IF NamesFile(request_json) THEN request_json.body.file_name
                          ELSE LatestBlob(blobs).name
             uri == [bucket |-> TRAIN_BUCKET, name |-> file_name]
             submitted == <<[call |-> "load_table_from_uri", uri |-> uri]>>
             loaded == Append(submitted, [call |-> "load_job.result", uri |-> uri])
             trained == Append(loaded, [call |-> "query.result", uri |-> uri])
         IN  IF "load_table_from_uri" \in fails THEN ErrorResponse(500, <<>>)
             ELSE IF "load_job.result" \in fails THEN ErrorResponse(500, submitted)
             ELSE IF "query.result" \in fails THEN ErrorResponse(500, loaded)
             ELSE [returned |-> TRUE, raised |-> "none", status |-> "success", code |-> 200,
                   file |-> uri, done |-> trained]

InitTrainModel ==
    /\ args \in RequestBodies \X Listings \X {f \in SUBSET TrainSteps : Cardinality(f) <= 1}
    /\ ret = NoReturn

TrainModel ==
    /\ prog = "train_model"
    /\ ~ret.returned
    /\ ret' = train_model(args[1], args[2], args[3])
    /\ UNCHANGED <<prog, api_token, args, varsPipeline, varsRun, varsLookup, varsNormalize,
                   varsPredict, varsPredictTx>>

(***************************************************************************)
(* ml_pipeline/pkl_prediction/main.py: process_transaction_file.           *)
(***************************************************************************)
MODEL_BUCKET == "rc-hackathon-model"
OUTPUT_BUCKET == "rc-hackathon-model"
OUTPUT_FOLDER == "output"
TXN_BUCKET == "rc-hackathon-txn"

\* f"{OUTPUT_FOLDER}/predicted_{file_name}"; an object name is the sequence
\* of its parts
OutputBlobName(file_name) == <<OUTPUT_FOLDER, "/", "predicted_">> \o file_name

\* the events: an upload of a transaction file, the upload of a predicted
\* file, an upload to some other bucket
UploadEvents ==
    {[bucket |-> TXN_BUCKET, name |-> <<"t.csv">>],
     [bucket |-> OUTPUT_BUCKET, name |-> OutputBlobName(<<"t.csv">>)],
     [bucket |-> "rc-hackathon-docs", name |-> <<"t.csv">>]}

\* The uploaded files: their header is any selection of these columns in
\* this order, their rows differ in the two ids (a cell may be empty: NaN).
CsvColumns == <<"amount", "originator_id", "transaction_id", "beneficiary_id", "same_industry">>
Headers ==
    {h \in ListsUpTo(Range(CsvColumns), Len(CsvColumns)) :
        \A i, j \in DOMAIN h : i < j =>
            \E a, b \in DOMAIN CsvColumns : a < b /\ CsvColumns[a] = h[i] /\ CsvColumns[b] = h[j]}
IdCells == {"A", "B", NaNLabel}
CsvCell(col, ids, i) ==
    CASE col = "originator_id" -> ids[1]
      [] col = "beneficiary_id" -> ids[2]
      [] col = "amount" -> 100
      [] col = "transaction_id" -> i
      [] OTHER -> 7
CsvFiles ==
    {[cols |-> h, rows |-> [i \in DOMAIN l |-> [c \in Range(h) |-> CsvCell(c, l[i], i)]]] :
        h \in Headers, l \in ListsUpTo(IdCells \X IdCells, MaxCsvRows)}

\* df[col] = values
SetColumn(table, col, values) ==
    [cols |-> IF col \in Range(table.cols) THEN table.cols ELSE Append(table.cols, col),
     rows |-> [i \in DOMAIN table.rows |->
                 [c \in Range(table.cols) \cup {col} |->
                     IF c = col THEN values[i] ELSE table.rows[i][c]]]]

\* the elementwise == of two columns, as an int: NaN equals nothing
SameIndustry(a, b) == IF a # NaNLabel /\ b # NaNLabel /\ a = b THEN 1 ELSE 0

\* preprocess_features, where it does not raise
preprocess_features(table) ==
    LET logged == SetColumn(table, "amount_log",
                            [i \in DOMAIN table.rows |-> <<"log1p", table.rows[i]["amount"]>>])
    IN  SetColumn(logged, "same_industry",
                  [i \in DOMAIN table.rows |->
                      SameIndustry(table.rows[i]["originator_id"], table.rows[i]["beneficiary_id"])])

\* model.predict on the features of the pickled model
predict_transaction(data) ==
    SetColumn(data, "prediction",
              [i \in DOMAIN data.rows |-> <<data.rows[i]["amount_log"], data.rows[i]["same_industry"]>>])

\* DataFrame.drop(columns=...) / df[keep_cols]
DropNothing(table, drop_cols) == table

Drop(table, drop_cols) ==
    [cols |-> SelectSeq(table.cols, LAMBDA c : c \notin drop_cols),
     rows |-> [i \in DOMAIN table.rows |->
                 [c \in Range(table.cols) \ drop_cols |-> table.rows[i][c]]]]

TransactionIdFirst(table) ==
    [table EXCEPT !.cols = <<"transaction_id">> \o SelectSeq(table.cols, LAMBDA c : c # "transaction_id")]

\* "if bucket_name != 'rc-hackathon-txn': return"
IgnoredNever(bucket_name) == FALSE

Ignored(bucket_name) == bucket_name # TXN_BUCKET

Processed(raised, downloads, model_loads, engineered, uploads) ==
    [returned |-> TRUE, raised |-> raised, downloads |-> downloads,
     model_loads |-> model_loads, engineered |-> engineered, uploads |-> uploads]

\* stored: the object the event names, where it is still there; fails: the
\* calls to the storage service that raise
process_transaction_file(event, stored, fails) ==
    IF Ignored(event.bucket) THEN Processed("none", <<>>, 0, <<>>, <<>>)
    ELSE LET downloads == <<[bucket |-> event.bucket, name |-> event.name]>> IN
    IF "download" \in fails THEN Processed("NotFound", downloads, 0, <<>>, <<>>)
    ELSE IF "amount" \notin Range(stored.cols)
            \/ ~({"originator_id", "beneficiary_id"} \subseteq Range(stored.cols))
         THEN Processed("KeyError", downloads, 0, <<>>, <<>>)
    ELSE LET engineered == preprocess_features(stored) IN
    IF "load_model" \in fails THEN Processed("NotFound", downloads, 1, <<engineered>>, <<>>)
    ELSE IF stored.rows = <<>> THEN Processed("ValueError", downloads, 1, <<engineered>>, <<>>)
    ELSE LET dropped == Drop(predict_transaction(engineered), {"amount_log", "same_industry"})
             df_pred == IF "transaction_id" \in Range(stored.cols)
                        THEN TransactionIdFirst(dropped) ELSE dropped
         IN  IF "upload" \in fails THEN Processed("GoogleAPIError", downloads, 1, <<engineered>>, <<>>)
             ELSE Processed("none", downloads, 1, <<engineered>>,
                            <<[bucket |-> OUTPUT_BUCKET, name |-> OutputBlobName(event.name),
                               content |-> df_pred]>>)

InitProcessFile ==
    /\ args \in UploadEvents \X CsvFiles
    /\ ret = NoReturn

ProcessTransactionFile ==
    /\ prog = "process_transaction_file"
    /\ ~ret.returned
    /\ \E fails \in {{}, {"download"}, {"load_model"}, {"upload"}} :
         ret' = process_transaction_file(args[1], args[2], fails)
    /\ UNCHANGED <<prog, api_token, args, varsPipeline, varsRun, varsLookup, varsNormalize,
                   varsPredict, varsPredictTx>>

(***************************************************************************)
(* ml_pipeline/cleanup/cleanup.py: the reset script.                       *)
(***************************************************************************)
BUCKETS == <<"sonic-totem-469814-q5-train-data", "sonic-totem-469814-q5-predict-data">>
FUNCTIONS == <<"train-model", "predict-transaction", "suspicious-transactions">>
DATASET == "transactions_dataset"

\* the commands of delete_functions, delete_buckets and delete_bq_dataset, in
\* the order __main__ calls them
delete_functions == [i \in DOMAIN FUNCTIONS |-> [tool |-> "gcloud functions delete", target |-> FUNCTIONS[i]]]
delete_buckets == [i \in DOMAIN BUCKETS |-> [tool |-> "gsutil rm -r", target |-> BUCKETS[i]]]
delete_bq_dataset == <<[tool |-> "bq rm -r -f -d", target |-> DATASET]>>
CleanupCommands == delete_functions \o delete_buckets \o delete_bq_dataset

\* subprocess.run(cmd, check=True, shell=True): the shell is started and a
\* command that exits with a non-zero status raises CalledProcessError
RunRaises(cmd, failing) == IF cmd \in failing THEN "CalledProcessError" ELSE "none"

\* "except subprocess.CalledProcessError"
CaughtNever(exc) == FALSE

Caught(exc) == exc = "CalledProcessError"

\* the script from the first of cmds on; attempted: the commands run so far
RECURSIVE RunCommands(_, _, _)
RunCommands(cmds, failing, attempted) ==
    IF cmds = <<>>
    THEN [returned |-> TRUE, raised |-> "none", attempted |-> attempted, reset_complete |-> TRUE]
    ELSE LET exc == RunRaises(Head(cmds), failing) IN
         IF exc # "none" /\ ~Caught(exc)
         THEN [returned |-> TRUE, raised |-> exc, attempted |-> Append(attempted, Head(cmds)),
               reset_complete |-> FALSE]
         ELSE RunCommands(Tail(cmds), failing, Append(attempted, Head(cmds)))

InitCleanup ==
    /\ args \in {<<failing>> : failing \in SUBSET Range(CleanupCommands)}
    /\ ret = NoReturn

Cleanup ==
    /\ prog = "cleanup"
    /\ ~ret.returned
    /\ ret' = RunCommands(CleanupCommands, args[1], <<>>)
    /\ UNCHANGED <<prog, api_token, args, varsPipeline, varsRun, varsLookup, varsNormalize,
                   varsPredict, varsPredictTx>>

(***************************************************************************)
(* The specifications.                                                     *)
(***************************************************************************)
InitProgPipeline ==
    /\ prog = "pipeline"
    /\ api_token = FALSE
    /\ InitPipeline /\ ParkedRun /\ ParkedLookup /\ ParkedNormalize /\ ParkedCall
    /\ ParkedPredict /\ ParkedPredictTx

InitProgRun ==
    /\ prog = "run_pipeline"
    /\ api_token \in BOOLEAN
    /\ ParkedPipeline /\ InitRun /\ ParkedLookup /\ ParkedNormalize /\ ParkedCall
    /\ ParkedPredict /\ ParkedPredictTx

InitProgLookup ==
    /\ prog = "lookup"
    /\ api_token \in BOOLEAN
    /\ ParkedPipeline /\ ParkedRun /\ InitLookup /\ ParkedNormalize /\ ParkedCall
    /\ ParkedPredict /\ ParkedPredictTx

InitProgNormalize ==
    /\ prog = "normalize"
    /\ api_token = FALSE
    /\ ParkedPipeline /\ ParkedRun /\ ParkedLookup /\ InitNormalize /\ ParkedCall
    /\ ParkedPredict /\ ParkedPredictTx

InitProgFetchIndustry ==
    /\ prog = "fetch_industry"
    /\ api_token = TRUE
    /\ ParkedPipeline /\ ParkedRun /\ ParkedLookup /\ ParkedNormalize /\ InitFetchIndustry
    /\ ParkedPredict /\ ParkedPredictTx

InitProgValidateMatch ==
    /\ prog = "validate_match"
    /\ api_token = FALSE
    /\ ParkedPipeline /\ ParkedRun /\ ParkedLookup /\ ParkedNormalize /\ InitValidateMatch
    /\ ParkedPredict /\ ParkedPredictTx

InitProgEnrichCompanies ==
    /\ prog = "enrich_companies"
    /\ api_token \in BOOLEAN
    /\ ParkedPipeline /\ ParkedRun /\ ParkedLookup /\ ParkedNormalize /\ InitEnrichCompanies
    /\ ParkedPredict /\ ParkedPredictTx

InitProgTriggerPipeline ==
    /\ prog = "trigger_pipeline"
    /\ api_token = FALSE
    /\ ParkedPipeline /\ ParkedRun /\ ParkedLookup /\ ParkedNormalize /\ InitTriggerPipeline
    /\ ParkedPredict /\ ParkedPredictTx

InitProgTrainModel ==
    /\ prog = "train_model"
    /\ api_token = FALSE
    /\ ParkedPipeline /\ ParkedRun /\ ParkedLookup /\ ParkedNormalize /\ InitTrainModel
    /\ ParkedPredict /\ ParkedPredictTx

InitProgProcessFile ==
    /\ prog = "process_transaction_file"
    /\ api_token = FALSE
    /\ ParkedPipeline /\ ParkedRun /\ ParkedLookup /\ ParkedNormalize /\ InitProcessFile
    /\ ParkedPredict /\ ParkedPredictTx

InitProgCleanup ==
    /\ prog = "cleanup"
    /\ api_token = FALSE
    /\ ParkedPipeline /\ ParkedRun /\ ParkedLookup /\ ParkedNormalize /\ InitCleanup
    /\ ParkedPredict /\ ParkedPredictTx

InitProgPredict ==
    /\ prog = "predict"
    /\ api_token = FALSE
    /\ ParkedPipeline /\ ParkedRun /\ ParkedLookup /\ ParkedNormalize /\ ParkedCall
    /\ InitPredict /\ ParkedPredictTx

InitProgPredictTx ==
    /\ prog = "predict_transaction"
    /\ api_token = FALSE
    /\ ParkedPipeline /\ ParkedRun /\ ParkedLookup /\ ParkedNormalize /\ ParkedCall
    /\ ParkedPredict /\ InitPredictTx

Init ==
    \/ InitProgEnrichCompanies
    \/ InitProgTriggerPipeline
    \/ InitProgTrainModel
    \/ InitProgProcessFile
    \/ InitProgCleanup
    \/ InitProgPredict
    \/ InitProgPredictTx
    \/ InitProgPipeline
    \/ InitProgRun
    \/ InitProgLookup
    \/ InitProgNormalize
    \/ InitProgFetchIndustry
    \/ InitProgValidateMatch

Next ==
    \/ NextPipeline
    \/ NextRun
    \/ NextLookup
    \/ Normalize
    \/ FetchIndustry
    \/ ValidateMatch
    \/ EnrichCompanies
    \/ TriggerPipeline
    \/ TrainModel
    \/ ProcessTransactionFile
    \/ Cleanup
    \/ NextPredict
    \/ NextPredictTx

Spec == Init /\ [][Next]_vars
SpecPipeline == InitProgPipeline /\ [][NextPipeline]_vars
SpecRun == InitProgRun /\ [][NextRun]_vars
SpecLookup == InitProgLookup /\ [][NextLookup]_vars
SpecNormalize == InitProgNormalize /\ [][Normalize]_vars
SpecEnrichCompanies == InitProgEnrichCompanies /\ [][EnrichCompanies]_vars
SpecFetchIndustry == InitProgFetchIndustry /\ [][FetchIndustry]_vars
SpecValidateMatch == InitProgValidateMatch /\ [][ValidateMatch]_vars
SpecTriggerPipeline == InitProgTriggerPipeline /\ [][TriggerPipeline]_vars
SpecTrainModel == InitProgTrainModel /\ [][TrainModel]_vars
SpecProcessFile == InitProgProcessFile /\ [][ProcessTransactionFile]_vars
SpecCleanup == InitProgCleanup /\ [][Cleanup]_vars
SpecPredict == InitProgPredict /\ [][NextPredict]_vars
SpecPredictTx == InitProgPredictTx /\ [][NextPredictTx]_vars

(***************************************************************************)
(* The claims.                                                             *)
(***************************************************************************)
ExtractRan == prog = "pipeline" /\ task["extract_transactions"] # "pending"
ColumnCheckRan == prog = "run_pipeline" /\ pc # "start"

\* C1: whenever a required column is absent from the input table, extraction
\* (extract_transactions, and the column check of run_pipeline) fails with an
\* error whose collection of missing columns is exactly the required columns
\* minus the columns present.
C1_ErrorNamesEveryMissingColumn ==
    /\ ExtractRan /\ Range(required_cols) \ source.cols # {}
         => /\ task["extract_transactions"] = "failed"
            /\ error.type = "ValueError"
            /\ Range(error.missing) = Range(required_cols) \ source.cols
    /\ ColumnCheckRan /\ run_required_cols \ input_csv.cols # {}
         => /\ pc = "raised"
            /\ run_error.type = "ValueError"
            /\ run_error.missing = run_required_cols \ input_csv.cols

\* extract_transactions has rejected a table that lacks two required columns
C1_Witness ==
    /\ ExtractRan
    /\ task["extract_transactions"] = "failed"
    /\ Cardinality(Range(required_cols) \ source.cols) = 2

\* the i-th answer of the model was a text that is no JSON, or a JSON object
\* without risk_level
Unusable(outcome) ==
    /\ outcome.kind = "text"
    /\ \/ ~JsonLoads(outcome.text).ok
       \/ /\ JsonLoads(outcome.text).kind = "object"
          /\ "risk_level" \notin DOMAIN JsonLoads(outcome.text).fields

IsParseErrorVerdict(v) ==
    /\ "risk_level" \in DOMAIN v /\ v.risk_level = "UNKNOWN"
    /\ "reasons" \in DOMAIN v /\ v.reasons = [list |-> <<"parse_error">>]

\* C2: a response that is not valid JSON, or that is valid JSON without
\* risk_level, yields the verdict {risk_level: UNKNOWN, reasons:
\* ["parse_error"]}, and no response text makes llm_score raise.
C2_UnusableResponseYieldsParseError ==
    /\ \A i \in DOMAIN results :
         Unusable(responses[i]) => IsParseErrorVerdict(results[i])
    /\ \A i \in DOMAIN responses :
         responses[i].kind = "text" => i \in DOMAIN results

RecognizedRisk == {"LOW", "MEDIUM", "HIGH", "UNKNOWN"}
RecognizedRiskLower == {"low", "medium", "high", "unknown"}

\* C3: every verdict a scorer emits (llm_score, assess_with_gemini) carries a
\* risk level that is one of LOW, MEDIUM, HIGH, UNKNOWN (in the letter case the
\* scorer uses).
C3_RiskLevelRecognized ==
    /\ \A i \in DOMAIN results :
         "risk_level" \in DOMAIN results[i] /\ results[i].risk_level \in RecognizedRisk
    /\ \A i \in DOMAIN assessments : assessments[i].risk \in RecognizedRiskLower

\* C4: a failure of one row (the model call raises, or its output is unusable)
\* never aborts the scorer: llm_score fails only when the backend cannot be
\* initialised and run_pipeline raises only at its column check or at the
\* initialisation of the backend, and a scorer that has finished has emitted
\* one verdict per row.
C4_RowFailureAbsorbed ==
    /\ task["llm_score"] = "failed" => error.type = "ModelUnavailable"
    /\ scored.written => Len(scored.content) = Len(source.ids)
    /\ pc = "raised" => run_error.type \in {"ValueError", "ModelUnavailable"}
    /\ pc = "done" /\ ~preview_only => Len(assessments) = Len(input_csv.rows)

\* C5: when extraction rejects a batch for a missing required column, no
\* output table is written and no later stage runs or writes anything.
C5_RejectedInFull ==
    /\ prog = "pipeline" /\ task["extract_transactions"] = "failed"
         => /\ ~raw.written /\ ~prompts.written /\ ~scored.written
            /\ \A f \in ExportFiles : ~exported[f].written
            /\ \A t \in Tasks \ {"extract_transactions"} : task[t] = "pending"
            /\ responses = <<>> /\ results = <<>>
    /\ prog = "run_pipeline" /\ run_required_cols \ input_csv.cols # {}
         => /\ pc \in {"start", "raised"}
            /\ \A n \in CompanyNames : lookup_calls[n] = 0
            /\ profiles = <<>> /\ df = <<>> /\ assessments = <<>>
            /\ ~output_csv.written

\* extract_transactions has rejected a table that has rows
C5_Witness ==
    /\ prog = "pipeline"
    /\ task["extract_transactions"] = "failed"
    /\ Len(source.ids) = MaxRows

\* C6: for an input table with every required column, the table that
\* extract_transactions emits has exactly the columns required + (optional
\* allow-list intersected with the columns present), each once.
C6_ExtractedColumns ==
    /\ ExtractRan /\ Range(required_cols) \subseteq source.cols => raw.written
    /\ raw.written
         => /\ Range(raw.content.cols)
                 = Range(required_cols) \cup (Range(optional_cols) \cap source.cols)
            /\ Cardinality(Range(raw.content.cols)) = Len(raw.content.cols)

\* a table with an optional and an unrecognized column has been extracted
C6_Witness ==
    /\ raw.written
    /\ "notes" \in source.cols
    /\ Range(optional_cols) \cap source.cols # {}
    /\ ~(Range(optional_cols) \subseteq source.cols)

NamesIn(rows) ==
    {rows[i][c] : i \in DOMAIN rows, c \in run_required_cols} \ {NaN}

EnrichmentDone ==
    /\ prog = "run_pipeline"
    /\ \/ pc \in {"init_vertex", "assess", "write", "done"}
       \/ pc = "raised" /\ run_error.type # "ValueError"

\* C7: enrich_companies calls OpenCorporatesClient.lookup exactly once per
\* distinct counterparty name of the two name columns, whatever the number of
\* rows, and attaching the profiles calls it no more.
C7_OneLookupPerDistinctName ==
    /\ \A n \in CompanyNames : lookup_calls[n] <= 1
    /\ EnrichmentDone
         => \A n \in CompanyNames :
              lookup_calls[n] = IF n \in NamesIn(input_csv.rows) THEN 1 ELSE 0

\* a run is done in which one name filled three cells or more
C7_Witness ==
    /\ prog = "run_pipeline" /\ pc = "done"
    /\ \E n \in CompanyNames :
         /\ Cardinality({<<i, c>> \in (DOMAIN input_csv.rows) \X run_required_cols :
                            input_csv.rows[i][c] = n}) >= 3
         /\ lookup_calls[n] = 1

\* C8: normalize_company_name is idempotent: normalizing a normalized name
\* returns it unchanged.
C8_NormalizeIdempotent == Len(applied) >= 3 => applied[3] = applied[2]

\* C9: when an attempt of search_company fails with a non-transient failure
\* (a 4xx status other than 429), exactly one request is made and lookup
\* falls back to the stub at once, with no retry and no backoff wait.
C9_NonTransientNotRetried ==
    (\E i \in DOMAIN failures : IsNonTransient(failures[i]))
        => /\ requests_made = 1
           /\ backoff = <<>>
           /\ lpc = "returned"
           /\ returned.returned /\ returned.profile.source = "stub"

ProfileFields == {"input_name", "canonical_name", "jurisdiction", "registry_url",
                  "sic", "nace", "naics", "industry_label", "source"}

\* C10: lookup sends at most 3 requests, then ends by returning a
\* CompanyProfile: the stub profile when every attempt failed; no exception
\* leaves lookup.  (Every position but "returned" has a step to take, and
\* lookup waits for another attempt only while fewer than 3 were made.)
C10_LookupBoundedAndTotal ==
    /\ requests_made <= 3
    /\ requests_made <= attempt
    /\ lpc # "raised"
    /\ prog = "lookup" => lpc \in {"call", "search", "wait", "returned"}
    /\ lpc = "wait" => requests_made < 3
    /\ lpc = "returned"
         => /\ returned.returned
            /\ DOMAIN returned.profile = ProfileFields
            /\ requests_made >= 1 /\ Len(failures) = requests_made
                 => returned.profile.source = "stub"

\* lookup has returned the stub after three failed attempts
C10_Witness ==
    /\ lpc = "returned"
    /\ requests_made = 3
    /\ Len(failures) = 3
    /\ returned.profile.source = "stub"

\* the entries of a list whose scheme name contains the word s
EntriesOf(ic_list, s) == SelectSeq(ic_list, LAMBDA ic : s \in ic.scheme)

\* the entries that belong to one of the three schemes
SchemeEntries(ic_list) == SelectSeq(ic_list, LAMBDA ic : ic.scheme \cap Schemes # {})

\* every entry of the list carries a code and a description
Complete(ic_list) ==
    \A i \in DOMAIN ic_list : ic_list[i].code # None /\ ic_list[i].description # None

\* C11: fetch_industry leaves in each scheme field (sic, nace, naics) the
\* code of the first entry of that scheme, a later entry of the scheme never
\* overwriting it, and the label is the description of the first entry that
\* yielded a code: a later entry of another scheme never replaces the label.
\* (Stated for the lists whose entries all carry a code and a description,
\* where "first" has one reading only.)
C11_FirstCodePerSchemeAndFirstLabel ==
    prog = "fetch_industry" /\ ret.returned /\ Complete(args[1].industry_codes)
        => LET ic_list == args[1].industry_codes
               profile == ret.profile
           IN  /\ \A s \in Schemes :
                    profile[s] = IF EntriesOf(ic_list, s) = <<>> THEN None
                                 ELSE Head(EntriesOf(ic_list, s)).code
               /\ profile.industry_label =
                    IF SchemeEntries(ic_list) = <<>> THEN None
                    ELSE Head(SchemeEntries(ic_list)).description

\* C12: validate_match returns "Unknown" when a label is missing, "Valid"
\* when ind2 is in the allow-list of ind1, and "Mismatch" in every other
\* case, an originator label without a rule included; Semiconductor ->
\* Metal Product is Valid and Semiconductor -> Beverage is Mismatch.
C12_ValidateMatchVerdicts ==
    prog = "validate_match" /\ ret.returned
        => LET ind1 == args[1]
               ind2 == args[2]
               missing == {NaNLabel, None}
           IN  /\ ind1 \in missing \/ ind2 \in missing => ret.verdict = "Unknown"
               /\ ind1 \notin missing /\ ind2 \notin missing
                    => /\ ind1 \notin DOMAIN ALLOWED_RELATIONS => ret.verdict = "Mismatch"
                       /\ ind1 \in DOMAIN ALLOWED_RELATIONS
                            => ret.verdict =
                                 IF \E i \in DOMAIN ALLOWED_RELATIONS[ind1] :
                                        ALLOWED_RELATIONS[ind1][i] = ind2
                                 THEN "Valid" ELSE "Mismatch"
               /\ args = <<"Semiconductor Manufacturing", "Metal Product Manufacturing">>
                    => ret.verdict = "Valid"
               /\ args = <<"Semiconductor Manufacturing", "Beverage Production">>
                    => ret.verdict = "Mismatch"

\* validate_match has returned for a pair with a NaN beneficiary label
C12_Witness ==
    /\ prog = "validate_match"
    /\ ret.returned
    /\ args = <<"Semiconductor Manufacturing", NaNLabel>>
    /\ ret.verdict = "Unknown"

RECURSIVE SumOf(_)
\* the sum of the counts of a histogram
SumOf(counts) ==
    IF DOMAIN counts = {} THEN 0
    ELSE LET k == CHOOSE x \in DOMAIN counts : TRUE
         IN  counts[k] + SumOf([x \in DOMAIN counts \ {k} |-> counts[x]])

\* C13: the counts of the risk summary written by generate_dashboard sum to
\* the number of rows of the batch, for every table llm_score has written.
C13_RiskCountsSumToRows ==
    prog = "pipeline" /\ exported["risk_summary.csv"].written
        => SumOf(exported["risk_summary.csv"].content) = Len(source.ids)

\* the reasons of one verdict as the claim counts them: the elements of a
\* list, or the one reason that is not a list
ReasonList(row) ==
    IF "reasons" \notin DOMAIN row THEN <<>>
    ELSE IF "list" \in DOMAIN row.reasons THEN row.reasons.list
    ELSE <<row.reasons.text>>

ReasonPairs(rows) ==
    UNION {{<<i, j>> : j \in 1..Len(ReasonList(rows[i]))} : i \in DOMAIN rows}

\* C14: once generate_dashboard has run on a scored table that has the columns
\* risk_level and reasons, the reason summary is written and gives, for each
\* reason, the number of (transaction, reason) pairs with that reason, so its
\* counts sum to the number of pairs.
C14_ReasonCountsArePairCounts ==
    /\ prog = "pipeline"
    /\ task["generate_dashboard"] \in {"succeeded", "failed"}
    /\ {"risk_level", "reasons"} \subseteq ColumnsOf(scored.content)
    => /\ exported["reason_summary.csv"].written
       /\ LET rows == scored.content
               pairs == ReasonPairs(rows)
               counts == exported["reason_summary.csv"].content
          IN  /\ DOMAIN counts = {ReasonList(rows[p[1]])[p[2]] : p \in pairs}
              /\ \A v \in DOMAIN counts :
                    counts[v] = Cardinality({p \in pairs : ReasonList(rows[p[1]])[p[2]] = v})
              /\ SumOf(counts) = Cardinality(pairs)

\* C15: every verdict assess_with_gemini returns has an integer score within
\* 0..100 (a missing score being 50, a score out of range clamped or
\* defaulted).
C15_ScoreWithinRange ==
    prog = "run_pipeline"
        => \A i \in DOMAIN assessments : assessments[i].score \in 0..100

\* C16: no partial result is persisted.  A scored file of llm_score, and an
\* output file of a scoring run of run_pipeline, holds a verdict for every
\* row of the batch; a run that raised wrote no file, whatever the number of
\* rows already scored, and no export exists unless llm_score succeeded.
C16_NoPartialResults ==
    /\ prog = "pipeline"
         => /\ scored.written
                 => /\ task["llm_score"] = "succeeded"
                    /\ Len(scored.content) = Len(prompts.content)
            /\ task["llm_score"] \in {"running", "failed"}
                 => /\ ~scored.written
                    /\ \A f \in ExportFiles : ~exported[f].written
    /\ prog = "run_pipeline"
         => /\ output_csv.written /\ ~preview_only
                 => /\ Len(assessments) = Len(df)
                    /\ Len(output_csv.content) = Len(input_csv.rows)
                    /\ \A i \in DOMAIN output_csv.content :
                          output_csv.content[i].assessment = assessments[i]
            /\ pc = "raised" => ~output_csv.written
            /\ pc = "assess" => ~output_csv.written

\* llm_score has failed on the second row of two, after scoring the first,
\* and no scored file exists
C16_Witness ==
    /\ prog = "pipeline"
    /\ task["llm_score"] = "failed"
    /\ Len(prompts.content) = 2
    /\ Len(results) = 1
    /\ Len(responses) = 2
    /\ ~scored.written

\* C17: when the generative-model backend cannot be loaded or initialised the
\* run fails with that error: llm_score fails with no verdict, no scored file
\* and no export; run_pipeline raises with no assessment and no output file.
C17_BackendUnavailableIsFatal ==
    /\ prog = "pipeline" /\ error.type = "ModelUnavailable"
         => /\ task["llm_score"] = "failed"
            /\ results = <<>>
            /\ ~scored.written
            /\ \A f \in ExportFiles : ~exported[f].written
            /\ task["persist_outputs"] = "pending"
            /\ task["generate_dashboard"] = "pending"
    /\ prog = "run_pipeline" /\ run_error.type = "ModelUnavailable"
         => /\ pc = "raised"
            /\ assessments = <<>>
            /\ ~output_csv.written

\* run_pipeline has raised at init_vertex with rows waiting to be scored
C17_Witness ==
    /\ prog = "run_pipeline"
    /\ run_error.type = "ModelUnavailable"
    /\ pc = "raised"
    /\ Len(df) = 2
    /\ ~output_csv.written

\* a stage has been started
Started(t) == task[t] # "pending"

\* C18: the stages run in dependency order (build_prompts only after
\* extract_transactions has completed, llm_score only after build_prompts,
\* persist_outputs and generate_dashboard only after llm_score), and a step
\* of persist_outputs or generate_dashboard changes no file that an earlier
\* stage reads or that their own input is.
C18_StagesInDependencyOrder ==
    /\ [](prog = "pipeline"
            => /\ Started("build_prompts")
                    => task["extract_transactions"] = "succeeded" /\ raw.written
               /\ Started("llm_score")
                    => task["build_prompts"] = "succeeded" /\ prompts.written
               /\ Started("persist_outputs")
                    => task["llm_score"] = "succeeded" /\ scored.written
               /\ Started("generate_dashboard")
                    => task["llm_score"] = "succeeded" /\ scored.written)
    /\ [][ prog = "pipeline"
           /\ \/ task["persist_outputs"]' # task["persist_outputs"]
              \/ task["generate_dashboard"]' # task["generate_dashboard"]
           => UNCHANGED <<source, raw, prompts, results, scored>> ]_vars

\* generate_dashboard has completed while persist_outputs has not started:
\* the two run in either order
C18_Witness ==
    /\ prog = "pipeline"
    /\ task["generate_dashboard"] = "succeeded"
    /\ task["persist_outputs"] = "pending"
    /\ exported["risk_summary.csv"].written
    /\ ~exported["decisions.csv"].written

\* C19: build_prompts writes one prompt row per row of the table it read, in
\* the same order, each with that row's transaction_id, and the context of a
\* prompt holds one "column: value" pair of that row for every column of the
\* table but transaction_id.
C19_OnePromptPerRow ==
    prog = "pipeline" /\ prompts.written
        => /\ Len(prompts.content) = Len(raw.content.ids)
           /\ Len(prompts.content) = Len(source.ids)
           /\ \A i \in DOMAIN prompts.content :
                /\ prompts.content[i].transaction_id = raw.content.ids[i]
                /\ prompts.content[i].transaction_id = source.ids[i]
                /\ {<<part.col, part.row>> : part \in Range(prompts.content[i].prompt)}
                     = {<<c, i>> : c \in Range(raw.content.cols) \ {"transaction_id"}}
                /\ Len(prompts.content[i].prompt) = Len(raw.content.cols) - 1

\* build_prompts has written the prompts of a two-row table that carries an
\* optional column
C19_Witness ==
    /\ prog = "pipeline"
    /\ task["build_prompts"] = "succeeded"
    /\ Len(prompts.content) = 2
    /\ "industry" \in Range(raw.content.cols)
    /\ prompts.content[2].transaction_id = TxnId(2)

\* C20: with registry credentials present, every query sent to the registry
\* for a counterparty is the normalized form of its name.
C20_QueryIsNormalizedName ==
    prog = "lookup" /\ api_token
        => \A i \in DOMAIN sent : sent[i] = normalize_company_name(lookup_name)

\* the heuristic table of the fallback: first word, code, label
StubTable ==
    {<<<<"S","H","E","L","L">>, "4731", "Wholesale of fuel">>,
     <<<<"T","E","S","C","O">>, "4711", "Supermarkets">>,
     <<<<"M","I","C","R","O","S","O","F","T">>, "6201", "Software development">>,
     <<<<"A","P","P","L","E">>, "4651", "Wholesale of computers">>,
     <<<<"A","M","A","Z","O","N">>, "4791", "E-commerce">>}

\* C21: a stub profile returned by lookup is keyed on the first word of the
\* normalized name: no table entry gives sic, nace, naics and label all null,
\* a table entry gives its code and label, the provenance being "stub" in
\* both cases; and without a registry credential lookup returns the stub
\* without sending a request.
C21_FallbackKeyedOnFirstWord ==
    prog = "lookup" /\ lpc = "returned"
        => LET profile == returned.profile
               word == FirstWord(normalize_company_name(lookup_name))
               hits == {e \in StubTable : e[1] = word}
           IN  /\ profile.source = "stub"
                    => /\ profile.input_name = lookup_name
                       /\ profile.sic = None /\ profile.naics = None
                       /\ hits = {} => profile.nace = None /\ profile.industry_label = None
                       /\ \A e \in hits :
                            profile.nace = e[2] /\ profile.industry_label = e[3]
               /\ ~api_token
                    => /\ profile.source = "stub"
                       /\ requests_made = 0
                       /\ sent = <<>>

\* without a credential lookup has returned the stub of a name whose first
\* normalized word, SHELL, is in the table
C21_Witness ==
    /\ prog = "lookup"
    /\ ~api_token
    /\ lpc = "returned"
    /\ lookup_name = ShellLtd
    /\ returned.profile.nace = "4731"
    /\ returned.profile.source = "stub"
    /\ requests_made = 0

\* the attached fields but the name itself, which the output file shows the
\* same for the integer 123 and the string "123"
Written(fields) == [k \in DOMAIN fields \ {"canonical_name"} |-> fields[k]]

\* C22: enrich_companies returns as many rows as it was given, every row
\* carrying for each role the fields of the profile that was resolved for the
\* row's own name of that role (the fallback for a NaN name), so that two
\* cells with the same name carry the same values.
C22_RowsCarryOwnProfiles ==
    prog = "enrich_companies" /\ ret.returned
        => /\ Len(ret.df) = Len(args[1])
           /\ \A i \in DOMAIN ret.df :
                /\ ret.df[i]["originator_name"] = args[1][i]["originator_name"]
                /\ ret.df[i]["beneficiary_name"] = args[1][i]["beneficiary_name"]
                /\ LET o == args[1][i]["originator_name"]
                       b == args[1][i]["beneficiary_name"]
                   IN  /\ o # NaN => Written(ret.df[i].originator)
                                        = Written(Attached(ret.profiles[AsTypeStr(o)]))
                       /\ b # NaN => Written(ret.df[i].beneficiary)
                                        = Written(Attached(ret.profiles[AsTypeStr(b)]))
                       /\ o = NaN => ret.df[i].originator.industry_source = "stub"
                       /\ b = NaN => ret.df[i].beneficiary.industry_source = "stub"
           /\ \A i, j \in DOMAIN ret.df :
                /\ args[1][i]["originator_name"] = args[1][j]["originator_name"]
                     => ret.df[i].originator = ret.df[j].originator
                /\ args[1][i]["originator_name"] = args[1][j]["beneficiary_name"]
                     => ret.df[i].originator = ret.df[j].beneficiary
                /\ args[1][i]["beneficiary_name"] = args[1][j]["beneficiary_name"]
                     => ret.df[i].beneficiary = ret.df[j].beneficiary

\* C30: every verdict of llm_score carries the transaction_id of the prompt
\* row it was produced for, a transaction_id in the model's JSON being
\* overwritten, and the scored table has one verdict row per prompt row, in
\* the order of the prompts.
C30_VerdictKeepsPromptId ==
    prog = "pipeline"
        => /\ \A i \in DOMAIN results :
                /\ i <= Len(prompts.content)
                /\ results[i].transaction_id = prompts.content[i].transaction_id
           /\ scored.written
                => /\ Len(scored.content) = Len(prompts.content)
                   /\ \A i \in DOMAIN scored.content :
                        scored.content[i].transaction_id = prompts.content[i].transaction_id

\* a scored table of two rows has been written, the model's JSON for the
\* second row having carried a transaction_id of its own
C30_Witness ==
    /\ prog = "pipeline"
    /\ scored.written
    /\ Len(scored.content) = 2
    /\ responses[2] = [kind |-> "text",
                       text |-> "{\"risk_level\": \"LOW\", \"reasons\": \"a\", \"transaction_id\": \"X\"}"]
    /\ scored.content[2].transaction_id = TxnId(2)

\* the events the claim accepts: both keys there and not empty, the object's
\* name ending in .csv or .parquet
Accepted(event) ==
    /\ {"bucket", "name"} \subseteq DOMAIN event
    /\ event.bucket # <<>>
    /\ event.name # <<>>
    /\ \/ EndsWith(event.name, <<".","c","s","v">>)
       \/ EndsWith(event.name, <<".","p","a","r","q","u","e","t">>)

\* C23: with its configuration in the environment and the platform answering
\* its calls, trigger_pipeline submits for an accepted event (bucket and name
\* present, name ending in .csv or .parquet) exactly one job, with
\* gcs_input_uri gs://<bucket>/<name>, and for every other event returns
\* without initialising the platform or submitting a job.
C23_OneJobPerAcceptedEvent ==
    (prog = "trigger_pipeline" /\ ret.returned /\ RequiredEnv \subseteq args[2]
        /\ ret.raised # "GoogleAPIError") =>
        IF Accepted(args[1])
        THEN /\ Len(ret.jobs) = 1
             /\ ret.jobs[1].gcs_input_uri =
                    <<"g","s",":","/","/">> \o args[1].bucket \o <<"/">> \o args[1].name
        ELSE ret.inits = 0 /\ ret.jobs = <<>> /\ ret.raised = "none"

\* the calls of kind c that a run completed
Completed(c) == {i \in DOMAIN ret.done : ret.done[i].call = c}

\* C24: train_model returns a response and raises nothing; a call that raises
\* gives status 500, and success means the model was trained; a request naming no file trains on an object of the bucket
\* updated no earlier than any other, and on an empty bucket answers 400 with
\* no load and no training; the model is trained only after the load job of
\* the chosen file has completed.
C24_TrainOnlyAfterLoadOfLatest ==
    (prog = "train_model" /\ ret.returned) =>
        /\ ret.raised = "none"
        /\ ret.status = "error" => ret.code \in {400, 500}
        /\ ret.code = 500 <=> (ret.status = "error" /\ ~(~NamesFile(args[1]) /\ args[2] = <<>>
                                                         /\ "storage.Client" \notin args[3]
                                                         /\ "list_blobs" \notin args[3]))
        /\ ret.status = "success" => Completed("query.result") # {}
        /\ (~NamesFile(args[1]) /\ args[2] = <<>> /\ args[3] \cap {"storage.Client", "list_blobs"} = {})
              => ret.code = 400 /\ ret.done = <<>>
        /\ \A i \in Completed("query.result") :
              \E j \in 1..(i - 1) :
                  ret.done[j] = [call |-> "load_job.result", uri |-> ret.done[i].uri]
        /\ (~NamesFile(args[1]) /\ ret.done # <<>>) =>
              \E i \in DOMAIN args[2] :
                  /\ ret.done[1].uri = [bucket |-> TRAIN_BUCKET, name |-> args[2][i].name]
                  /\ \A j \in DOMAIN args[2] : args[2][j].updated <= args[2][i].updated

\* a request without a file name, the older object listed first, every call
\* succeeding: the model was trained on the newer object
C24_Witness ==
    /\ prog = "train_model" /\ ret.returned
    /\ ~args[1].json
    /\ Len(args[2]) = 2 /\ args[2][1].updated < args[2][2].updated
    /\ ret.status = "success"
    /\ Completed("query.result") # {}
    /\ ret.file.name = args[2][2].name

\* process_transaction_file has read the file the event names
FileRead ==
    /\ prog = "process_transaction_file" /\ ret.returned
    /\ (ret.downloads # <<>> /\ ret.raised # "NotFound") \/ ret.model_loads = 1

\* C25: once the file is read, a missing amount, originator_id or
\* beneficiary_id column gives a KeyError and no upload; otherwise
\* same_industry is 1 in the rows whose two ids are there and equal and 0 in
\* the others, and an uploaded file has neither amount_log nor same_industry,
\* has a prediction column, as many rows as the input, and transaction_id as
\* its first column if the input had that column.
C25_UploadedColumns ==
    FileRead =>
        LET input == args[2] IN
        /\ ~({"amount", "originator_id", "beneficiary_id"} \subseteq Range(input.cols))
              => ret.raised = "KeyError" /\ ret.uploads = <<>>
        /\ \A e \in Range(ret.engineered) : \A i \in DOMAIN e.rows :
              e.rows[i]["same_industry"] =
                  IF /\ input.rows[i]["originator_id"] \in {"A", "B"}
                     /\ input.rows[i]["originator_id"] = input.rows[i]["beneficiary_id"]
                  THEN 1 ELSE 0
        /\ \A u \in Range(ret.uploads) :
              /\ "amount_log" \notin Range(u.content.cols)
              /\ "same_industry" \notin Range(u.content.cols)
              /\ "prediction" \in Range(u.content.cols)
              /\ Len(u.content.rows) = Len(input.rows)
              /\ \A i \in DOMAIN u.content.rows :
                    DOMAIN u.content.rows[i] = Range(u.content.cols)
              /\ "transaction_id" \in Range(input.cols) => u.content.cols[1] = "transaction_id"

\* a file with transaction_id in third place, a same_industry column of its
\* own and rows with equal, different and missing ids was uploaded
C25_Witness ==
    /\ FileRead
    /\ args[2].cols = CsvColumns
    /\ Len(args[2].rows) = 2
    /\ args[2].rows[1]["originator_id"] = args[2].rows[1]["beneficiary_id"]
    /\ args[2].rows[2]["beneficiary_id"] = NaNLabel
    /\ Len(ret.uploads) = 1
    /\ ret.uploads[1].content.cols =
           <<"transaction_id", "amount", "originator_id", "beneficiary_id", "prediction">>

\* C29: process_transaction_file downloads, loads the model and uploads only
\* for an event of bucket rc-hackathon-txn; whatever it uploads is the one
\* object output/predicted_<name> of bucket rc-hackathon-model, a bucket
\* whose events it ignores, so that a predicted file starts no further
\* processing.
C29_NoSelfTrigger ==
    (prog = "process_transaction_file" /\ ret.returned) =>
        /\ args[1].bucket # "rc-hackathon-txn" =>
              /\ ret.downloads = <<>> /\ ret.model_loads = 0 /\ ret.uploads = <<>>
              /\ ret.raised = "none"
        /\ Len(ret.uploads) <= 1
        /\ \A u \in Range(ret.uploads) :
              /\ u.bucket = "rc-hackathon-model"
              /\ u.name = <<"output", "/", "predicted_">> \o args[1].name
              /\ u.bucket # "rc-hackathon-txn"

\* the event of a predicted file written to rc-hackathon-model was ignored
C29_Witness ==
    /\ prog = "process_transaction_file" /\ ret.returned
    /\ args[1] = [bucket |-> "rc-hackathon-model",
                  name |-> <<"output", "/", "predicted_", "t.csv">>]
    /\ Len(args[2].rows) = 2
    /\ {"amount", "originator_id", "beneficiary_id"} \subseteq Range(args[2].cols)
    /\ ret.uploads = <<>>

\* C26: whichever delete commands fail, the cleanup script attempts the three
\* function deletions, then the two bucket deletions, then the dataset
\* deletion, each once and in that order, raises nothing and reports
\* completion.
C26_EveryDeletionAttempted ==
    (prog = "cleanup" /\ ret.returned) =>
        /\ ret.attempted =
              <<[tool |-> "gcloud functions delete", target |-> "train-model"],
                [tool |-> "gcloud functions delete", target |-> "predict-transaction"],
                [tool |-> "gcloud functions delete", target |-> "suspicious-transactions"],
                [tool |-> "gsutil rm -r", target |-> "sonic-totem-469814-q5-train-data"],
                [tool |-> "gsutil rm -r", target |-> "sonic-totem-469814-q5-predict-data"],
                [tool |-> "bq rm -r -f -d", target |-> "transactions_dataset"]>>
        /\ ret.raised = "none"
        /\ ret.reset_complete

\* every one of the six commands failed and the script still finished
C26_Witness ==
    /\ prog = "cleanup" /\ ret.returned
    /\ args[1] = Range(CleanupCommands)
    /\ Len(ret.attempted) = 6
    /\ ret.reset_complete

\* C27: load_model runs only while model or kmeans is unset, so never again
\* after a run that set both; a call of predict that returns gives one
\* prediction per instance, in the order of the instances, each with the
\* clusters of its two descriptions and same_cluster true exactly when the
\* two clusters are the same.
C27_LoadOnceAndOnePredictionPerInstance ==
    prog = "predict" =>
        /\ \A i \in DOMAIN loads :
              /\ loads[i].model = "None" \/ loads[i].kmeans = "None"
              /\ \A j \in 1..(i - 1) : loads[j].outcome # "loaded"
        /\ Cardinality({i \in DOMAIN loads : loads[i].outcome = "loaded"}) <= 1
        /\ last.raised = "none" =>
              /\ Len(last.predictions) = Len(last.instances)
              /\ \A i \in DOMAIN last.instances :
                    LET p == last.predictions[i]
                        d == last.instances[i]
                    IN  /\ p.cluster1 = (IF d[1] = "Crude Petroleum" THEN 0 ELSE 1)
                        /\ p.cluster2 = (IF d[2] = "Crude Petroleum" THEN 0 ELSE 1)
                        /\ p.same_cluster <=> (p.cluster1 = p.cluster2)

\* a first load failed half way, a second one succeeded, and a later call
\* answered two instances, one in one cluster and one in two, without loading
C27_Witness ==
    /\ prog = "predict"
    /\ calls = 3
    /\ Len(loads) = 2
    /\ loads[1].outcome = "KeyError" /\ loads[2].outcome = "loaded"
    /\ last.raised = "none"
    /\ Len(last.predictions) = 2
    /\ last.predictions[1].same_cluster /\ ~last.predictions[2].same_cluster

\* C28: of two concurrent invocations of predict_transaction for two
\* different files, each one that reports success has written the
\* predictions of the rows of its own file.
C28_SuccessMeansOwnFile ==
    prog = "predict_transaction" =>
        \A i \in Invocations :
            invocation[i].status = "success" => invocation[i].predicted = FileOf(i)

====
